---------------------------- MODULE Spec2Model ----------------------------
(***************************************************************************)
(* A model of the interleaved-access grouping code of                      *)
(* llvm/include/llvm/Analysis/VectorUtils.h: the InterleaveGroup class     *)
(* (checked key arithmetic of insertMember, getMember, getIndex) and the   *)
(* reordering legality check of InterleavedAccessInfo with its cached      *)
(* dependence map.                                                         *)
(*                                                                         *)
(* Integers keep the width of the source.  An int32_t is the integer it    *)
(* denotes.  A uint32_t is held as the int32_t with the same bit pattern   *)
(* (TLC's integers are 32 bits wide): a value below 2^31 is itself, a      *)
(* value u >= 2^31 is held as u - 2^32.  No operator below computes an     *)
(* intermediate value outside [INT32_MIN, INT32_MAX].                      *)
(***************************************************************************)
EXTENDS Integers, FiniteSets, Sequences, TLC

VARIABLES
    Group,        \* the InterleaveGroup object under test (its private fields)
    calls,        \* number of insertMember calls made on Group so far
    lastInsert,   \* the last insertMember call: arguments, result, group before
    alignsGiven,  \* the alignments given to the constructor and to accepted calls
    MayWrite,     \* the accesses of the loop whose mayWriteToMemory() is true
    StrideOf,     \* StrideDescriptor::Stride of every access of the loop
    OffsetOf,     \* the element each access touches in iteration 0 of the loop
    LAI,          \* the LoopAccessInfo pointer and what its getDependences() gives
    Dependences,  \* InterleavedAccessInfo::Dependences, the cached dependence map
    collected,    \* collectDependences() has run on this InterleavedAccessInfo
    lastDep,      \* the last dependence operation: arguments, result, what it read
    Heap,         \* the InterleaveGroup objects allocated and not deleted, by address
    InterleaveGroupMap,      \* InterleavedAccessInfo::InterleaveGroupMap
    InterleaveGroups,        \* InterleavedAccessInfo::InterleaveGroups (addresses)
    RequiresScalarEpilogue,  \* InterleavedAccessInfo::RequiresScalarEpilogue
    lastRepo,     \* the last operation on the repository and the repository before it
    firstRun,     \* what the first analyzeInterleaving of the loop produced
    lastMask,     \* the last mask built: the builder, its arguments, the mask
    lastSplit     \* the last splitLoop: the bounds of the loop, the split point

groupVars == <<Group, calls, lastInsert, alignsGiven>>
depVars   == <<MayWrite, StrideOf, OffsetOf, LAI, Dependences, collected,
               lastDep>>
repoVars  == <<Heap, InterleaveGroupMap, InterleaveGroups,
               RequiresScalarEpilogue, lastRepo, firstRun>>
maskVars  == <<lastMask>>
splitVars == <<lastSplit>>
vars      == <<Group, calls, lastInsert, alignsGiven, MayWrite, StrideOf,
               OffsetOf, LAI, Dependences, collected, lastDep, Heap,
               InterleaveGroupMap, InterleaveGroups, RequiresScalarEpilogue,
               lastRepo, firstRun, lastMask, lastSplit>>

---------------------------------------------------------------------------
(* Bounds of the model. *)

\* Number of distinct memory accesses (instructions), named 1..NumInstrs in
\* program order.  0 is the null pointer.
NumInstrs == 2

\* Number of insertMember calls explored on one group.
MaxCalls == 3

\* Slot indices 0..MaxProbe are probed by getMember besides the filled ones.
MaxProbe == 3

\* Number of memory accesses given to the legality check and to the group
\* operations of the repository, named 1..NumAccesses in program order.
NumAccesses == 3

\* Number of memory accesses of the loops given to the grouping analysis,
\* named 1..NumLoopAccesses in program order: enough for two groups of two
\* members.
NumLoopAccesses == 4

\* reset() leaves the addresses of the groups it deletes in InterleaveGroups,
\* which so grows without bound; reset() is run while InterleaveGroups holds
\* at most MaxDangling addresses of deleted groups after it.
MaxDangling == 1


\* The mask builders are run for vectorization factors 1..MaxVF, for
\* replication factors, numbers of vectors and strides 1..MaxVecs, for
\* starts 0..MaxStart and for 1..MaxInts integers and 0..MaxInts undefs.
MaxVF == 4
MaxVecs == 3
MaxStart == 2
MaxInts == 4

\* The bounds of the induction variable of a split loop are in -MaxIV..MaxIV
\* or one of the two ends of the i32 range.
MaxIV == 8

Instrs == 1..NumInstrs
Null == 0

\* The memory accesses of the loop body, named in program order.
Accesses == 1..NumAccesses
LoopAccesses == 1..NumLoopAccesses

\* Every instruction a pointer of the program can point to.
AnyInstr == Instrs \cup Accesses \cup LoopAccesses

\* The addresses operator new gives to groups.  A group is created for an
\* access in no group, so fewer groups than accesses are live when one is
\* created; with the addresses of deleted groups InterleaveGroups holds,
\* new always has an address left that the repository has never seen.
NumAddrs == Cardinality(Accesses \cup LoopAccesses) + MaxDangling

\* Two values that are no instruction and not the null pointer: a pointer
\* read from memory that holds no member, and the mark of a call that does
\* not return because the program is stopped in it.
Garbage == -1
NoReturn == -2

---------------------------------------------------------------------------
(* Fixed-width arithmetic. *)

INT32_MAX == 2147483647
INT32_MIN == -INT32_MAX - 1

\* The Optional<int32_t> of checkedAdd / checkedSub.
None == [has |-> FALSE, val |-> 0]
Some(v) == [has |-> TRUE, val |-> v]

\* a + b leaves the int32_t range.
AddOverflows(a, b) ==
    \/ b > 0 /\ a > INT32_MAX - b
    \/ b < 0 /\ a < INT32_MIN - b

\* a - b leaves the int32_t range.
SubOverflows(a, b) ==
    \/ b < 0 /\ a > INT32_MAX + b
    \/ b > 0 /\ a < INT32_MIN + b

\* a + b reduced modulo 2^32 into the int32_t range (two's complement).
WrapAdd(a, b) ==
    IF ~AddOverflows(a, b) THEN a + b
    ELSE IF b > 0 THEN (a - INT32_MAX - 1) + (b - INT32_MAX - 1)
    ELSE (a + INT32_MAX + 1) + (b + INT32_MAX + 1)

\* a - b reduced modulo 2^32 into the int32_t range (two's complement).
WrapSub(a, b) ==
    IF ~SubOverflows(a, b) THEN a - b
    ELSE IF b < 0 THEN (a - INT32_MAX - 1) - (b + INT32_MAX + 1)
    ELSE (a + INT32_MAX + 1) - (b - INT32_MAX - 1)

\* llvm::checkedAdd<int32_t>: the sum, or None when it overflows.
checkedAdd(LHS, RHS) ==
    IF AddOverflows(LHS, RHS) THEN None ELSE Some(LHS + RHS)

\* llvm::checkedSub<int32_t>: the difference, or None when it overflows.
checkedSub(LHS, RHS) ==
    IF SubOverflows(LHS, RHS) THEN None ELSE Some(LHS - RHS)

\* static_cast<int32_t>(u) of a uint32_t: the same bit pattern.
ToInt32(u) == u

\* v >= static_cast<int64_t>(u) for an int32_t v and a uint32_t u: a u of
\* 2^31 or more (held negative) is above every int32_t.
GeAsInt64(v, u) == u >= 0 /\ v >= u

\* std::min on two uint32_t values.
MinU32(a, b) ==
    IF (a >= 0 /\ b >= 0) \/ (a < 0 /\ b < 0)
    THEN (IF b < a THEN b ELSE a)
    ELSE (IF a >= 0 THEN a ELSE b)

\* The integer d = l - s is below the uint32_t u, for int32_t l and s.
DiffBelowU32(l, s, u) ==
    IF ~SubOverflows(l, s) THEN (u < 0 \/ l - s < u)
    ELSE IF s > 0 THEN TRUE          \* l - s < INT32_MIN <= 0 <= u
    ELSE \* 2^31 <= l - s < 2^32: compare l - s - 2^32 with the pattern of u
         u < 0 /\ (l - INT32_MAX - 1) + ((-1 - s) - INT32_MAX) < u

---------------------------------------------------------------------------
(* InterleaveGroup. *)

\* Inputs of the constructor and of insertMember.  Strides reach the
\* constructor through createInterleaveGroup, whose callers pass strided
\* accesses only, so |Stride| > 1 (the constructor asserts it).
StrideInputs == {2, -2, 3, INT32_MAX}
IndexInputs  == {INT32_MIN, INT32_MIN + 1, -2, -1, 0, 1, 2,
                 INT32_MAX - 1, INT32_MAX}
AlignInputs  == {2, 4}

\* std::abs of an int32_t other than INT32_MIN.
Abs(x) == IF x < 0 THEN -x ELSE x

\* A mutant of the constructor: Reverse is never set.
NewGroupWithLeader_forward(Instr, Stride, Align) ==
    [Factor      |-> Abs(Stride),
     Reverse     |-> FALSE,
     Align       |-> Align,
     Members     |-> [k \in {0} |-> Instr],
     SmallestKey |-> 0,
     LargestKey  |-> 0,
     InsertPos   |-> Instr]

\* InterleaveGroup(InstTy *Instr, int32_t Stride, uint32_t Align): the group
\* of a leader.  SmallestKey and LargestKey take their default, 0.
NewGroupWithLeader(Instr, Stride, Align) ==
    [Factor      |-> Abs(Stride),
     Reverse     |-> Stride < 0,
     Align       |-> Align,
     Members     |-> [k \in {0} |-> Instr],
     SmallestKey |-> 0,
     LargestKey  |-> 0,
     InsertPos   |-> Instr]

\* Members[Key] = Instr on the DenseMap.
PutMember(Members, Key, Instr) ==
    [k \in DOMAIN Members \cup {Key} |->
        IF k = Key THEN Instr ELSE Members[k]]

\* The keys DenseMapInfo<int32_t> keeps for the empty and the deleted buckets
\* of a DenseMap<int32_t, ...>: no entry may have them and no lookup may ask
\* for them.
ReservedKey(Key) == Key = INT32_MAX \/ Key = INT32_MIN

\* Members.find(Key) with a reserved key on a map that has buckets (a map
\* that holds a member; no member is ever erased): the lookup fails the
\* assertion of DenseMap in a build with assertions, and without them it
\* compares the key with the keys of the empty buckets.  A map that never
\* held a member has no bucket and answers end() for every key.
LookupUndefined(g, Key) == ReservedKey(Key) /\ DOMAIN g.Members # {}

\* Members.find(Key) != Members.end(): the set of the outcomes of the test
\* over the builds, "true", "false", or "abort" when the program is stopped
\* in the lookup.  Without assertions the largest key equals the key of an
\* empty bucket and is found; the smallest key equals the key of an erased
\* bucket, and no bucket is ever erased.
KeyOccupied(g, Key) ==
    IF LookupUndefined(g, Key)
    THEN IF Key = INT32_MAX THEN {"true", "abort"} ELSE {"false", "abort"}
    ELSE IF Key \in DOMAIN g.Members THEN {"true"} ELSE {"false"}

\* The only element of a set of outcomes that has one element.
Only(S) == CHOOSE x \in S : S = {x}

\* A mutant of UpperIndexTooLarge: off by one, index == Factor is accepted.
UpperIndexTooLarge_offByOne(Index, Factor) == Index > ToInt32(Factor)

\* Index >= static_cast<int32_t>(Factor), the test of the Key > LargestKey
\* branch.
UpperIndexTooLarge(Index, Factor) == Index >= ToInt32(Factor)

\* *MaybeLargestIndex >= static_cast<int64_t>(Factor), the test of the
\* Key < SmallestKey branch.
LowerIndexTooLarge(LargestIndex, Factor) == GeAsInt64(LargestIndex, Factor)

\* A mutant of StoreMember: the new member's alignment replaces the group's.
StoreMember_lastAlign(g, Key, Instr, NewAlign) ==
    [g EXCEPT !.Align   = NewAlign,
              !.Members = PutMember(g.Members, Key, Instr)]

\* A mutant of StoreMember: the new member becomes the insert position.
StoreMember_movesInsertPos(g, Key, Instr, NewAlign) ==
    [g EXCEPT !.Align     = MinU32(g.Align, NewAlign),
              !.Members   = PutMember(g.Members, Key, Instr),
              !.InsertPos = Instr]

\* The tail of insertMember, lines 441-444: take the minimum alignment and
\* record the member.
StoreMember(g, Key, Instr, NewAlign) ==
    [g EXCEPT !.Align   = MinU32(g.Align, NewAlign),
              !.Members = PutMember(g.Members, Key, Instr)]

\* The outcome of an insertMember call that returns: the value and the group.
Returned(ret, g) == [ret |-> ret, g |-> g, abort |-> FALSE]

\* The outcome of an insertMember call stopped by a failed assertion.
Aborted(g) == [ret |-> FALSE, g |-> g, abort |-> TRUE]

\* A mutant of insertKey: LargestKey and SmallestKey are assigned before
\* the factor tests, so a rejected call moves a bound to a key without member.
insertKey_boundsBeforeTest(g, Instr, Index, NewAlign, Key) ==
    IF Key > g.LargestKey
    THEN IF UpperIndexTooLarge(Index, g.Factor)
         THEN Returned(FALSE, [g EXCEPT !.LargestKey = Key])
         ELSE Returned(TRUE, StoreMember([g EXCEPT !.LargestKey = Key],
                                         Key, Instr, NewAlign))
    ELSE IF Key < g.SmallestKey
    THEN LET MaybeLargestIndex == checkedSub(g.LargestKey, Key)
         IN  IF ~MaybeLargestIndex.has THEN Returned(FALSE, g)
             ELSE IF LowerIndexTooLarge(MaybeLargestIndex.val, g.Factor)
             THEN Returned(FALSE, [g EXCEPT !.SmallestKey = Key])
             ELSE Returned(TRUE, StoreMember([g EXCEPT !.SmallestKey = Key],
                                             Key, Instr, NewAlign))
    ELSE Returned(TRUE, StoreMember(g, Key, Instr, NewAlign))

\* insertMember from line 421 on, for a key that fits and that the lookup
\* did not find: the tests of the span against the factor, then the member
\* is stored.
insertKey(g, Instr, Index, NewAlign, Key) ==
    IF Key > g.LargestKey
    THEN IF UpperIndexTooLarge(Index, g.Factor) THEN Returned(FALSE, g)
         ELSE Returned(TRUE, StoreMember([g EXCEPT !.LargestKey = Key],
                                         Key, Instr, NewAlign))
    ELSE IF Key < g.SmallestKey
    THEN LET MaybeLargestIndex == checkedSub(g.LargestKey, Key)
         IN  IF ~MaybeLargestIndex.has THEN Returned(FALSE, g)
             ELSE IF LowerIndexTooLarge(MaybeLargestIndex.val, g.Factor)
             THEN Returned(FALSE, g)
             ELSE Returned(TRUE, StoreMember([g EXCEPT !.SmallestKey = Key],
                                             Key, Instr, NewAlign))
    ELSE Returned(TRUE, StoreMember(g, Key, Instr, NewAlign))

\* The outcomes of insertMember after assert(NewAlign), for each outcome of
\* the lookup of the key.
insertChecked(g, Instr, Index, NewAlign) ==
    LET MaybeKey == checkedAdd(Index, g.SmallestKey)
        Key      == MaybeKey.val
    IN  IF ~MaybeKey.has THEN {Returned(FALSE, g)}
        ELSE {IF o = "abort" THEN Aborted(g)
              ELSE IF o = "true" THEN Returned(FALSE, g)
              ELSE insertKey(g, Instr, Index, NewAlign, Key) :
                 o \in KeyOccupied(g, Key)}

\* A mutant of insertMember: Align = std::min(Align, NewAlign) is moved to
\* the top of the function, so a rejected call lowers the alignment.
insertMember_alignFirst(g, Instr, Index, NewAlign) ==
    insertChecked([g EXCEPT !.Align = MinU32(g.Align, NewAlign)],
                  Instr, Index, NewAlign)

\* A mutant of insertMember: the key is Index + SmallestKey without the
\* overflow check, wrapped around.
insertMember_uncheckedKey(g, Instr, Index, NewAlign) ==
    LET Key == WrapAdd(Index, g.SmallestKey)
    IN  {IF o = "abort" THEN Aborted(g)
         ELSE IF o = "true" THEN Returned(FALSE, g)
         ELSE insertKey(g, Instr, Index, NewAlign, Key) :
            o \in KeyOccupied(g, Key)}

\* bool insertMember(InstTy *Instr, int32_t Index, uint32_t NewAlign): the
\* set of the outcomes of the call over the builds; each is the value
\* returned and the group after the call, or the stop of the program by a
\* failed assertion (assert(NewAlign), or the assertion of DenseMap when the
\* key is a reserved one), which leaves the group as it was.  Without
\* assertions a zero alignment is taken like any other.
insertMember(g, Instr, Index, NewAlign) ==
    (IF NewAlign = 0 THEN {Aborted(g)} ELSE {})
    \cup insertChecked(g, Instr, Index, NewAlign)

\* InstTy *getMember(uint32_t Index): the key is SmallestKey + Index in
\* 32-bit arithmetic; the set of the outcomes of the call over the builds.
\* It is the member of the key, or Null when no member has it.  For a
\* reserved key on a map with buckets the program is stopped by the
\* assertion of DenseMap (NoReturn), or the lookup ends on an empty bucket
\* and the call returns what its value field holds: a member stored there
\* before the map grew, an instruction left in that memory by a group that
\* was destroyed, anything else, or it finds nothing.
getMember(g, Index) ==
    LET Key == WrapAdd(g.SmallestKey, Index)
    IN  IF LookupUndefined(g, Key)
        THEN {NoReturn, Null, Garbage} \cup AnyInstr
        ELSE IF Key \in DOMAIN g.Members THEN {g.Members[Key]} ELSE {Null}

\* An outcome of getIndex: the call returns the index i.
IndexIs(i) == [kind |-> "index", val |-> i]

\* An outcome of getIndex: the program is stopped in llvm_unreachable.
Unreachable == [kind |-> "stop", val |-> 0]

\* An outcome of getIndex: the call returns, with a value that nothing
\* determines.
AnyValue == [kind |-> "any", val |-> 0]

\* A mutant of getIndex: the key is returned instead of the index.
getIndex_rawKey(g, Instr) ==
    IF \A j \in DOMAIN g.Members : g.Members[j] # Instr
    THEN {Unreachable, AnyValue}
    ELSE {IndexIs(k) : k \in {j \in DOMAIN g.Members : g.Members[j] = Instr}}

\* uint32_t getIndex(const InstTy *Instr): the set of the outcomes of the
\* call over the builds.  It returns I.first - SmallestKey of the first
\* entry of the DenseMap that holds Instr; the iteration order of a DenseMap
\* is that of its hash buckets, so every entry holding Instr may be the
\* first.  When no entry holds Instr the scan ends in llvm_unreachable: with
\* assertions that prints the message and stops the program; without them
\* (NDEBUG) it is __builtin_unreachable or nothing at all, undefined
\* behaviour after which the call returns whatever the register holds.
getIndex(g, Instr) ==
    IF \A j \in DOMAIN g.Members : g.Members[j] # Instr
    THEN {Unreachable, AnyValue}
    ELSE {IndexIs(WrapSub(k, g.SmallestKey)) :
             k \in {j \in DOMAIN g.Members : g.Members[j] = Instr}}

\* InterleaveGroup(uint32_t Factor, bool Reverse, uint32_t Align): a group
\* with no member and no insert position; the keys keep their default 0.
NewGroup(Factor, Reverse, Align) ==
    [Factor      |-> Factor,
     Reverse     |-> Reverse,
     Align       |-> Align,
     Members     |-> << >>,
     SmallestKey |-> 0,
     LargestKey  |-> 0,
     InsertPos   |-> Null]

\* The factors given to that constructor.
FactorInputs == {2, 3}

\* Factors over the whole range of uint32_t, as bit patterns: 2, 2^31 and
\* 2^32 - 1.
WideFactorInputs == {2, INT32_MIN, -1}

\* A mutant of requiresScalarEpilogue: slot 0 is tested, not slot Factor - 1.
requiresScalarEpilogue_slotZero(g, writes) ==
    IF getMember(g, 0) # {Null} THEN {"false"}
    ELSE {"true", "crash", "assert"}

\* A mutant of requiresScalarEpilogue: the test of the last slot is
\* inverted, true is returned when slot Factor - 1 is filled.
requiresScalarEpilogue_inverted(g, writes) ==
    IF getMember(g, WrapSub(g.Factor, 1)) # {Null} THEN {"true"}
    ELSE {"false"}

\* bool requiresScalarEpilogue(): the set of the outcomes of the call over
\* the builds of the header.  "false" and "true" are the values returned,
\* "assert" is a failed assertion.  Without assertions (NDEBUG) the two
\* asserts vanish and a group whose last slot is empty returns true.  With
\* assertions, getMember(0)->mayWriteToMemory() dereferences a null pointer
\* when slot 0 is empty: undefined behaviour, which may stop the program
\* ("crash") or go on with either value of the condition.  So does the
\* dereference of a pointer that is no instruction.  A getMember call stopped
\* by the assertion of DenseMap stops this call too ("assert").
requiresScalarEpilogue(g, writes) ==
    LET First(m) == IF m = NoReturn THEN {"assert"}
                    ELSE IF m = Null \/ m = Garbage THEN {"crash", "assert"}
                    ELSE IF m \in writes \/ g.Reverse THEN {"assert"}
                    ELSE {}
        Last(m)  == IF m = NoReturn THEN {"assert"}
                    ELSE IF m # Null THEN {"false"}
                    ELSE {"true"} \cup UNION {First(f) : f \in getMember(g, 0)}
    IN  UNION {Last(m) : m \in getMember(g, WrapSub(g.Factor, 1))}

\* The accesses held by a group, whatever their key.
MembersOf(g) == {g.Members[k] : k \in DOMAIN g.Members}

\* uint32_t getNumMembers(): Members.size().
getNumMembers(g) == Cardinality(DOMAIN g.Members)

\* void setInsertPos(InstTy *Inst).
setInsertPos(g, Inst) == [g EXCEPT !.InsertPos = Inst]

\* The least element of a non-empty set of integers.
MinOf(S) == CHOOSE a \in S : \A b \in S : a <= b

\* The slot indices probed by the properties of getMember: those of the
\* members and 0..MaxProbe, below Factor.
ProbedIndices(g) ==
    {i \in {WrapSub(k, g.SmallestKey) : k \in DOMAIN g.Members}
           \cup 0..MaxProbe : i >= 0 /\ (g.Factor < 0 \/ i < g.Factor)}

NoInsert(g) ==
    [called |-> FALSE, Instr |-> Null, Index |-> 0, NewAlign |-> 1,
     ret |-> FALSE, abort |-> FALSE, pre |-> g]

GroupInit ==
    /\ \E Instr \in Instrs, Stride \in StrideInputs, Align \in AlignInputs :
          Group = NewGroupWithLeader(Instr, Stride, Align)
    /\ calls = 0
    /\ lastInsert = NoInsert(Group)
    /\ alignsGiven = {Group.Align}

\* One call of insertMember on the group, with any arguments, in any build.
\* A program stopped in a call makes no further call.
InsertMember ==
    /\ calls < MaxCalls
    /\ ~lastInsert.abort
    /\ \E Instr \in Instrs, Index \in IndexInputs, NewAlign \in AlignInputs :
          \E r \in insertMember(Group, Instr, Index, NewAlign) :
              /\ Group' = r.g
              /\ lastInsert' = [called |-> TRUE, Instr |-> Instr,
                                Index |-> Index, NewAlign |-> NewAlign,
                                ret |-> r.ret, abort |-> r.abort,
                                pre |-> Group]
              /\ alignsGiven' = IF r.ret THEN alignsGiven \cup {NewAlign}
                                ELSE alignsGiven
    /\ calls' = calls + 1

\* One call of setInsertPos on the group, with any instruction or null.
SetInsertPos ==
    /\ ~lastInsert.abort
    /\ \E Inst \in Instrs \cup {Null} :
          /\ Inst # Group.InsertPos
          /\ Group' = setInsertPos(Group, Inst)
    /\ UNCHANGED <<calls, lastInsert, alignsGiven>>

---------------------------------------------------------------------------
(* InterleavedAccessInfo: the dependence facts and the legality check. *)


\* The strides of the accesses of the loop: not strided (1) and strided.
AccessStrideInputs == {1, -2}

\* The dependences a LoopAccessInfo can report: pairs <<source, destination>>
\* with the source before the destination in program order.
DepPairs == {p \in Accesses \X Accesses : p[1] < p[2]}

\* The LoopAccessInfo given to the constructor: a null pointer, one whose
\* getDepChecker().getDependences() is null, or one with its dependences.
NullLAI == [present |-> FALSE, recorded |-> FALSE, deps |-> {}]
LAIChoices ==
    {NullLAI, [present |-> TRUE, recorded |-> FALSE, deps |-> {}]}
    \cup {[present |-> TRUE, recorded |-> TRUE, deps |-> D] :
             D \in SUBSET DepPairs}

\* The empty DenseMap.
EmptyMap == [x \in {} |-> {}]

\* static bool isStrided(int Stride): a stride of magnitude above 1.
isStrided(Stride) == Abs(Stride) > 1

\* bool areDependencesValid() const
areDependencesValid(lai) == lai.present /\ lai.recorded

\* A mutant of collectDependences: the early return on invalid dependences
\* is dropped, and the dependences are read whatever their validity.
collectDependences_unguarded(lai, Deps) ==
    [Dependences  |->
        [s \in DOMAIN Deps \cup {p[1] : p \in lai.deps} |->
            (IF s \in DOMAIN Deps THEN Deps[s] ELSE {})
            \cup {p[2] : p \in {q \in lai.deps : q[1] = s}}],
     checkedValid |-> FALSE,
     validWas     |-> areDependencesValid(lai),
     readOracle   |-> TRUE]

\* A mutant of collectDependences: source and destination are exchanged.
collectDependences_swapped(lai, Deps) ==
    IF ~areDependencesValid(lai)
    THEN [Dependences |-> Deps, checkedValid |-> TRUE, validWas |-> FALSE,
          readOracle |-> FALSE]
    ELSE [Dependences  |->
            [s \in DOMAIN Deps \cup {p[2] : p \in lai.deps} |->
                (IF s \in DOMAIN Deps THEN Deps[s] ELSE {})
                \cup {p[1] : p \in {q \in lai.deps : q[2] = s}}],
          checkedValid |-> TRUE,
          validWas     |-> TRUE,
          readOracle   |-> TRUE]

\* void collectDependences(): the cached map after the call, with what the
\* call did: whether it called areDependencesValid(), what that returned,
\* and whether it read LAI's dependences.
collectDependences(lai, Deps) ==
    IF ~areDependencesValid(lai)
    THEN [Dependences |-> Deps, checkedValid |-> TRUE, validWas |-> FALSE,
          readOracle |-> FALSE]
    ELSE [Dependences  |->
            [s \in DOMAIN Deps \cup {p[1] : p \in lai.deps} |->
                (IF s \in DOMAIN Deps THEN Deps[s] ELSE {})
                \cup {p[2] : p \in {q \in lai.deps : q[1] = s}}],
          checkedValid |-> TRUE,
          validWas     |-> TRUE,
          readOracle   |-> TRUE]

\* What canReorderMemAccessesForInterleavedGroups returns with what it did.
Answer(ret, checked, valid, consulted) ==
    [ret |-> ret, checkedValid |-> checked, validWas |-> valid,
     consultedCache |-> consulted]

\* A mutant of the legality check: the early return for a source that does
\* not write is dropped.
canReorder_noReadOnlyExit(Src, SrcStride, Sink, SinkStride, writes, lai, Deps) ==
    IF ~isStrided(SrcStride) /\ ~isStrided(SinkStride)
    THEN Answer(TRUE, FALSE, FALSE, FALSE)
    ELSE IF ~areDependencesValid(lai)
    THEN Answer(FALSE, TRUE, FALSE, FALSE)
    ELSE Answer(Src \notin DOMAIN Deps \/ Sink \notin Deps[Src],
                TRUE, TRUE, TRUE)

\* A mutant of the legality check: the areDependencesValid() test is
\* dropped and the cached map is consulted at once.
canReorder_noValidCheck(Src, SrcStride, Sink, SinkStride, writes, lai, Deps) ==
    IF Src \notin writes THEN Answer(TRUE, FALSE, FALSE, FALSE)
    ELSE IF ~isStrided(SrcStride) /\ ~isStrided(SinkStride)
    THEN Answer(TRUE, FALSE, FALSE, FALSE)
    ELSE Answer(Src \notin DOMAIN Deps \/ Sink \notin Deps[Src],
                FALSE, areDependencesValid(lai), TRUE)

\* A mutant of the legality check: a source without an entry in the cached
\* map is taken as unknown and rejected.
canReorder_absentRejects(Src, SrcStride, Sink, SinkStride, writes, lai, Deps) ==
    IF Src \notin writes THEN Answer(TRUE, FALSE, FALSE, FALSE)
    ELSE IF ~isStrided(SrcStride) /\ ~isStrided(SinkStride)
    THEN Answer(TRUE, FALSE, FALSE, FALSE)
    ELSE IF ~areDependencesValid(lai)
    THEN Answer(FALSE, TRUE, FALSE, FALSE)
    ELSE Answer(Src \in DOMAIN Deps /\ Sink \notin Deps[Src],
                TRUE, TRUE, TRUE)

\* bool canReorderMemAccessesForInterleavedGroups(StrideEntry *A,
\* StrideEntry *B) const, A = (Src, SrcDes), B = (Sink, SinkDes); writes is
\* the set of the accesses whose mayWriteToMemory() holds.
canReorderMemAccessesForInterleavedGroups(Src, SrcStride, Sink, SinkStride, writes, lai, Deps) ==
    IF Src \notin writes THEN Answer(TRUE, FALSE, FALSE, FALSE)
    ELSE IF ~isStrided(SrcStride) /\ ~isStrided(SinkStride)
    THEN Answer(TRUE, FALSE, FALSE, FALSE)
    ELSE IF ~areDependencesValid(lai)
    THEN Answer(FALSE, TRUE, FALSE, FALSE)
    ELSE Answer(Src \notin DOMAIN Deps \/ Sink \notin Deps[Src],
                TRUE, TRUE, TRUE)

NoDepOp ==
    [op |-> "none", A |-> Null, B |-> Null, ret |-> FALSE,
     checkedValid |-> FALSE, validWas |-> FALSE, readOracle |-> FALSE,
     consultedCache |-> FALSE, DepsBefore |-> EmptyMap]

DepInit ==
    /\ MayWrite \in SUBSET Accesses
    /\ StrideOf \in [Accesses -> AccessStrideInputs]
    /\ OffsetOf = [a \in Accesses |-> 0]
    /\ LAI \in LAIChoices
    /\ Dependences = EmptyMap
    /\ collected = FALSE
    /\ lastDep = NoDepOp

\* collectDependences() is run.
CollectDependences ==
    LET r == collectDependences(LAI, Dependences)
    IN  /\ Dependences' = r.Dependences
        /\ collected' = TRUE
        /\ lastDep' = [op |-> "collectDependences", A |-> Null, B |-> Null,
                       ret |-> FALSE, checkedValid |-> r.checkedValid,
                       validWas |-> r.validWas, readOracle |-> r.readOracle,
                       consultedCache |-> FALSE, DepsBefore |-> Dependences]
        /\ UNCHANGED <<MayWrite, StrideOf, OffsetOf, LAI>>

\* The legality check is asked about a pair A, B with A before B in program
\* order.
CanReorder ==
    \E A \in Accesses, B \in Accesses :
        /\ A < B
        /\ LET r == canReorderMemAccessesForInterleavedGroups(
                        A, StrideOf[A], B, StrideOf[B], MayWrite, LAI,
                        Dependences)
           IN  lastDep' = [op |-> "canReorder", A |-> A, B |-> B,
                           ret |-> r.ret, checkedValid |-> r.checkedValid,
                           validWas |-> r.validWas, readOracle |-> FALSE,
                           consultedCache |-> r.consultedCache,
                           DepsBefore |-> Dependences]
        /\ UNCHANGED <<MayWrite, StrideOf, OffsetOf, LAI, Dependences, collected>>

---------------------------------------------------------------------------
(* InterleavedAccessInfo: the groups it owns. *)

\* The addresses operator new can return for a group.
Addrs == 1..NumAddrs

\* The strides and the relative indices the group operations are tried with.
RepoStrideInputs == {2, -3}
RepoIndexInputs == {-1, 1, 2}

\* The members of the repository as one value: Heap holds the groups that
\* were allocated and not deleted, by address.
Repo ==
    [Heap                   |-> Heap,
     InterleaveGroupMap     |-> InterleaveGroupMap,
     InterleaveGroups       |-> InterleaveGroups,
     RequiresScalarEpilogue |-> RequiresScalarEpilogue]

\* The repository after construction: the members' default values.
EmptyRepo ==
    [Heap                   |-> << >>,
     InterleaveGroupMap     |-> << >>,
     InterleaveGroups       |-> {},
     RequiresScalarEpilogue |-> FALSE]

\* f with x mapped to v, x added to the domain when absent.
MapPut(f, x, v) ==
    [y \in DOMAIN f \cup {x} |-> IF y = x THEN v ELSE f[y]]

\* f without the keys of D.
MapErase(f, D) == [y \in DOMAIN f \ D |-> f[y]]

\* Every access of the loop has the same alignment.
AccessAlign == MinOf(AlignInputs)

\* The addresses that hold no group: those InterleaveGroups does not hold,
\* and those of deleted groups that InterleaveGroups still holds (after
\* reset()).
Unseen(r) == (Addrs \ DOMAIN r.Heap) \ r.InterleaveGroups
Dangling(r) == (Addrs \ DOMAIN r.Heap) \cap r.InterleaveGroups

\* The address new returns for a group: any address that holds no group.
\* The allocator either gives an address that InterleaveGroups does not hold
\* (fresh: it does not hand out freed blocks again, or the caller took
\* them), or gives again the address of a deleted group while there is one,
\* as an allocator that hands out the block freed last does.  The addresses
\* of either kind are interchangeable, the lowest stands for them.  new
\* never fails: an address of the first kind is always left.
newAddr(r, fresh) ==
    IF fresh \/ Dangling(r) = {} THEN MinOf(Unseen(r))
    ELSE MinOf(Dangling(r))

\* createInterleaveGroup(Instr, Stride, Align), with the address addr
\* returned by new.  The assertion is the guard of the callers; without
\* assertions the entry of Instr is overwritten.
createInterleaveGroup(r, Instr, Stride, Align, addr) ==
    [r EXCEPT
       !.Heap = MapPut(r.Heap, addr, NewGroupWithLeader(Instr, Stride, Align)),
       !.InterleaveGroupMap = MapPut(r.InterleaveGroupMap, Instr, addr),
       !.InterleaveGroups = r.InterleaveGroups \cup {addr}]

\* The members releaseGroup finds: the non-null getMember(i) for i from 0
\* to Factor - 1 (the factors of the groups of a repository are small).
MembersBelowFactor(g) ==
    UNION {getMember(g, i) : i \in 0..(g.Factor - 1)} \ {Null}

\* A mutant of releaseGroup: the group stays in InterleaveGroups.
releaseGroup_keepsEnumerated(r, G) ==
    [r EXCEPT
       !.InterleaveGroupMap =
           MapErase(r.InterleaveGroupMap, MembersBelowFactor(r.Heap[G])),
       !.Heap = MapErase(r.Heap, {G})]

\* A mutant of releaseGroup: the members stay in InterleaveGroupMap.
releaseGroup_keepsMap(r, G) ==
    [r EXCEPT
       !.InterleaveGroups = r.InterleaveGroups \ {G},
       !.Heap = MapErase(r.Heap, {G})]

\* releaseGroup(Group) on a live group: its members leave the map, the
\* group leaves InterleaveGroups and is deleted.
releaseGroup(r, G) ==
    [r EXCEPT
       !.InterleaveGroupMap =
           MapErase(r.InterleaveGroupMap, MembersBelowFactor(r.Heap[G])),
       !.InterleaveGroups = r.InterleaveGroups \ {G},
       !.Heap = MapErase(r.Heap, {G})]

\* The groups the map points to.
Range(f) == {f[x] : x \in DOMAIN f}

\* reset(): the groups the map points to are deleted, the map is cleared and
\* the flag is lowered.  InterleaveGroups is not touched.
reset(r) ==
    [r EXCEPT
       !.Heap = MapErase(r.Heap, Range(r.InterleaveGroupMap)),
       !.InterleaveGroupMap = << >>,
       !.RequiresScalarEpilogue = FALSE]

\* No analyzeInterleaving has run yet.
NoRun ==
    [ran |-> FALSE, groups |-> {}, dangling |-> 0, map |-> << >>,
     flag |-> FALSE]

\* The last operation on the repository: abort when an assertion stopped
\* the program in it.
NoRepoOp ==
    [op |-> "none", G |-> Null, Instr |-> Null, ret |-> FALSE,
     abort |-> FALSE, pre |-> EmptyRepo]

\* No assertion has stopped the program.
Running == ~lastRepo.abort

\* The repository variables take the values of r.
SetRepo(r) ==
    /\ Heap' = r.Heap
    /\ InterleaveGroupMap' = r.InterleaveGroupMap
    /\ InterleaveGroups' = r.InterleaveGroups
    /\ RequiresScalarEpilogue' = r.RequiresScalarEpilogue

RepoInit ==
    /\ Heap = EmptyRepo.Heap
    /\ InterleaveGroupMap = EmptyRepo.InterleaveGroupMap
    /\ InterleaveGroups = EmptyRepo.InterleaveGroups
    /\ RequiresScalarEpilogue = EmptyRepo.RequiresScalarEpilogue
    /\ lastRepo = NoRepoOp
    /\ firstRun = NoRun

\* createInterleaveGroup is called for an access in no group.
CreateInterleaveGroup ==
    /\ Running
    /\ \E Instr \in Accesses \ DOMAIN InterleaveGroupMap,
          Stride \in RepoStrideInputs, fresh \in BOOLEAN :
          LET addr == newAddr(Repo, fresh)
          IN  /\ SetRepo(createInterleaveGroup(Repo, Instr, Stride,
                                               AccessAlign, addr))
              /\ lastRepo' = [op |-> "createInterleaveGroup", G |-> addr,
                              Instr |-> Instr, ret |-> TRUE, abort |-> FALSE,
                              pre |-> Repo]
    /\ UNCHANGED firstRun

\* The merge step of the analysis: an access B in no group is offered to a
\* group at a relative index; when insertMember accepts it, the map records
\* B as a member of the group.
mergeIntoGroup(r, G, B, Index, Align) ==
    LET i == Only(insertMember(r.Heap[G], B, Index, Align))
    IN  IF i.ret
        THEN [r EXCEPT !.Heap = MapPut(r.Heap, G, i.g),
                       !.InterleaveGroupMap = MapPut(r.InterleaveGroupMap, B, G)]
        ELSE r

MergeIntoGroup ==
    \E G \in Range(InterleaveGroupMap),
       B \in Accesses \ DOMAIN InterleaveGroupMap,
       Index \in RepoIndexInputs :
        /\ Running
        /\ SetRepo(mergeIntoGroup(Repo, G, B, Index, AccessAlign))
        /\ lastRepo' = [op |-> "mergeIntoGroup", G |-> G, Instr |-> B,
                        ret |-> Only(insertMember(Heap[G], B, Index,
                                                  AccessAlign)).ret,
                        abort |-> FALSE, pre |-> Repo]
        /\ UNCHANGED firstRun

\* releaseGroup is called on a group of the repository.
ReleaseGroup ==
    \E G \in Range(InterleaveGroupMap) :
        /\ Running
        /\ SetRepo(releaseGroup(Repo, G))
        /\ lastRepo' = [op |-> "releaseGroup", G |-> G, Instr |-> Null,
                        ret |-> FALSE, abort |-> FALSE, pre |-> Repo]
        /\ UNCHANGED firstRun

\* reset() is called, while InterleaveGroups stays within its bound.
Reset ==
    /\ Running
    /\ Cardinality(Dangling(reset(Repo))) <= MaxDangling
    /\ SetRepo(reset(Repo))
    /\ lastRepo' = [op |-> "reset", G |-> Null, Instr |-> Null,
                    ret |-> FALSE, abort |-> FALSE, pre |-> Repo]
    /\ UNCHANGED firstRun

---------------------------------------------------------------------------
(* InterleavedAccessInfo: analyzeInterleaving and the invalidation. *)

\* The strides, the offsets and the LoopAccessInfo of the loops analysed.
\* Stride 0 is an access without constant stride.
LoopStrideInputs == {0, 1, 3, -3}
LoopOffsetInputs == {0, 1, 2}
LoopLAIInputs ==
    {NullLAI, [present |-> TRUE, recorded |-> TRUE, deps |-> {<<1, 3>>}]}

\* The facts the analysis reads about the loop.
LoopFacts ==
    [MayWrite |-> MayWrite, StrideOf |-> StrideOf, OffsetOf |-> OffsetOf,
     LAI |-> LAI]

\* Steps 2 to 4 for one pair: A precedes B in program order.  B, in no
\* group yet, is offered to the group of A (created first when A has none)
\* when both are strided with the same stride and the accesses may be
\* reordered; its index is that of A plus the distance from A to B, and
\* insertMember decides whether it fits.
tryMerge(r, f, Deps, fresh, A, B) ==
    IF \/ B \in DOMAIN r.InterleaveGroupMap
       \/ ~isStrided(f.StrideOf[A]) \/ ~isStrided(f.StrideOf[B])
       \/ f.StrideOf[A] # f.StrideOf[B]
       \/ ~canReorderMemAccessesForInterleavedGroups(
               A, f.StrideOf[A], B, f.StrideOf[B], f.MayWrite, f.LAI,
               Deps).ret
    THEN r
    ELSE LET r1 == IF A \in DOMAIN r.InterleaveGroupMap THEN r
                   ELSE createInterleaveGroup(r, A, f.StrideOf[A],
                                              AccessAlign, newAddr(r, fresh))
             G      == r1.InterleaveGroupMap[A]
             IndexA == (CHOOSE o \in getIndex(r1.Heap[G], A) : TRUE).val
             Index  == IndexA + (f.OffsetOf[B] - f.OffsetOf[A])
         IN  mergeIntoGroup(r1, G, B, Index, AccessAlign)

\* The pairs in the order of the pass: B ascending, and for each B the
\* earlier accesses A ascending.
RECURSIVE mergePairs(_, _, _, _, _, _)
mergePairs(r, f, Deps, fresh, A, B) ==
    IF B > NumLoopAccesses THEN r
    ELSE IF A >= B THEN mergePairs(r, f, Deps, fresh, 1, B + 1)
    ELSE mergePairs(tryMerge(r, f, Deps, fresh, A, B), f, Deps, fresh, A + 1, B)

\* releaseGroup on every group of S.
RECURSIVE releaseAll(_, _)
releaseAll(r, S) ==
    IF S = {} THEN r
    ELSE LET G == CHOOSE H \in S : TRUE
         IN  releaseAll(releaseGroup(r, G), S \ {G})

\* Step 5: a group is discarded when it has fewer than two members.
mustDiscard(g) == getNumMembers(g) < 2

\* Step 6: the OR of requiresScalarEpilogue() over the groups kept.
epilogueFlag(r, writes) ==
    \E G \in Range(r.InterleaveGroupMap) :
        "true" \in requiresScalarEpilogue(r.Heap[G], writes)

\* requiresScalarEpilogue() stops the program on a group kept: one of its
\* assertions fails.
epilogueStops(r, writes) ==
    \E G \in Range(r.InterleaveGroupMap) :
        requiresScalarEpilogue(r.Heap[G], writes) \cap {"assert", "crash"} # {}

\* An outcome of the analysis or of the invalidation: the repository it
\* leaves, and whether an assertion stopped the program in it.
Completed(r) == [abort |-> FALSE, r |-> r]
Stopped(r) == [abort |-> TRUE, r |-> r]

\* analyzeInterleaving on a repository without group: the merges, the
\* discards and the flag; the set of its outcomes over the builds.  fresh
\* is the choice of the allocator.  The program is stopped when
\* requiresScalarEpilogue() is asked of a group that fails its assertions.
analyzeInterleaving(r, f, Deps, fresh) ==
    LET merged == mergePairs(r, f, Deps, fresh, 1, 2)
        kept   == releaseAll(merged,
                     {G \in Range(merged.InterleaveGroupMap) :
                          mustDiscard(merged.Heap[G])})
    IN  {Completed([kept EXCEPT !.RequiresScalarEpilogue =
                                   epilogueFlag(kept, f.MayWrite)])}
        \cup (IF epilogueStops(kept, f.MayWrite) THEN {Stopped(kept)} ELSE {})

\* invalidateGroupsRequiringScalarEpilogue(): every group whose
\* requiresScalarEpilogue() is true is released and the flag is lowered; the
\* set of its outcomes over the builds.
invalidateGroupsRequiringScalarEpilogue(r, writes) ==
    {Completed(
        [releaseAll(r, {G \in Range(r.InterleaveGroupMap) :
                           "true" \in requiresScalarEpilogue(r.Heap[G], writes)})
            EXCEPT !.RequiresScalarEpilogue = FALSE])}
    \cup (IF epilogueStops(r, writes) THEN {Stopped(r)} ELSE {})

\* What a caller sees of the repository: the groups enumerated (by content,
\* with the number of enumerated addresses that hold no group), the group of
\* every access, and the flag.
View(r) ==
    [ran      |-> TRUE,
     groups   |-> {r.Heap[G] : G \in r.InterleaveGroups \cap DOMAIN r.Heap},
     dangling |-> Cardinality(r.InterleaveGroups \ DOMAIN r.Heap),
     map      |-> [a \in DOMAIN r.InterleaveGroupMap |->
                      r.Heap[r.InterleaveGroupMap[a]]],
     flag     |-> r.RequiresScalarEpilogue]

\* The loops analysed.  The analysis drops the accesses that are not
\* strided whatever their kind and offset: they are loads of offset 0.
LoopInit ==
    /\ MayWrite \in SUBSET LoopAccesses
    /\ StrideOf \in [LoopAccesses -> LoopStrideInputs]
    /\ OffsetOf \in [LoopAccesses -> LoopOffsetInputs]
    /\ \A a \in LoopAccesses :
          ~isStrided(StrideOf[a]) => OffsetOf[a] = 0 /\ a \notin MayWrite
    /\ LAI \in LoopLAIInputs
    /\ Dependences = EmptyMap
    /\ collected = FALSE
    /\ lastDep = NoDepOp

\* analyzeInterleaving() is run on a repository that holds no group (the
\* first run, or a run after reset()): the dependences are collected, then
\* the groups are formed.
AnalyzeInterleaving ==
    /\ Running
    /\ DOMAIN InterleaveGroupMap = {}
    /\ \E fresh \in BOOLEAN :
          LET Deps == collectDependences(LAI, Dependences).Dependences
          IN  \E o \in analyzeInterleaving(Repo, LoopFacts, Deps, fresh) :
                 /\ SetRepo(o.r)
                 /\ Dependences' = Deps
                 /\ firstRun' = IF firstRun.ran \/ o.abort THEN firstRun
                                ELSE View(o.r)
                 /\ lastRepo' = [op |-> "analyzeInterleaving", G |-> Null,
                                 Instr |-> Null, ret |-> FALSE,
                                 abort |-> o.abort, pre |-> Repo]
    /\ collected' = TRUE
    /\ UNCHANGED <<MayWrite, StrideOf, OffsetOf, LAI, lastDep>>

\* invalidateGroupsRequiringScalarEpilogue() is run.
InvalidateGroupsRequiringScalarEpilogue ==
    /\ Running
    /\ \E o \in invalidateGroupsRequiringScalarEpilogue(Repo, MayWrite) :
          /\ SetRepo(o.r)
          /\ lastRepo' = [op |-> "invalidateGroupsRequiringScalarEpilogue",
                          G |-> Null, Instr |-> Null, ret |-> FALSE,
                          abort |-> o.abort, pre |-> Repo]
    /\ UNCHANGED firstRun

---------------------------------------------------------------------------
(* The mask builders.  A mask is the sequence of the values of its          *)
(* elements, element 0 first; the values are far below 2^31.                *)

\* The factors of the groups a gap mask is built for.
MaskFactorInputs == {2, 3, 4}

\* The value of an undef element: no uint32_t index.
Undef == -1

\* The group of factor Factor whose filled slots are 0 and those of Slots:
\* the group of the leader, then insertMember for each slot in ascending
\* order.  The member of slot s is access s + 1.
RECURSIVE GroupOfSlots(_, _)
GroupOfSlots(Factor, Slots) ==
    IF Slots = {} THEN NewGroupWithLeader(1, Factor, AccessAlign)
    ELSE LET s == CHOOSE a \in Slots : \A b \in Slots : b <= a
         IN  Only(insertMember(GroupOfSlots(Factor, Slots \ {s}), s + 1, s,
                               AccessAlign)).g

\* The sequences of ss one after the other.
RECURSIVE Concat(_)
Concat(ss) == IF ss = << >> THEN << >> ELSE Head(ss) \o Concat(Tail(ss))

\* createBitMaskForGaps with the two loops exchanged: slot by slot.
createBitMaskForGaps_slotMajor(VF, g) ==
    Concat([j \in 1..g.Factor |->
               [i \in 1..VF |->
                   IF getMember(g, j - 1) # {Null} THEN 1 ELSE 0]])

\* createBitMaskForGaps(Builder, VF, Group): for each lane, for each slot
\* of the group, 1 when the slot has a member and 0 when it has none.
createBitMaskForGaps(VF, g) ==
    Concat([i \in 1..VF |->
               [j \in 1..g.Factor |->
                   IF getMember(g, j - 1) # {Null} THEN 1 ELSE 0]])

\* createReplicatedMask repeating the whole sequence of indices.
createReplicatedMask_tiled(ReplicationFactor, VF) ==
    Concat([j \in 1..ReplicationFactor |-> [i \in 1..VF |-> i - 1]])

\* createReplicatedMask(Builder, ReplicationFactor, VF): each of the VF
\* indices ReplicationFactor times.
createReplicatedMask(ReplicationFactor, VF) ==
    Concat([i \in 1..VF |-> [j \in 1..ReplicationFactor |-> i - 1]])

\* createInterleaveMask taking the vectors one after the other.
createInterleaveMask_concatenated(VF, NumVecs) ==
    Concat([j \in 1..NumVecs |-> [i \in 1..VF |-> (j - 1) * VF + (i - 1)]])

\* createInterleaveMask(Builder, VF, NumVecs):
\* <0, VF, ..., VF * (NumVecs - 1), 1, VF + 1, ...>.
createInterleaveMask(VF, NumVecs) ==
    Concat([i \in 1..VF |-> [j \in 1..NumVecs |-> (j - 1) * VF + (i - 1)]])

\* createStrideMask stepping by one from the start.
createStrideMask_unitStep(Start, Stride, VF) ==
    [i \in 1..VF |-> Start + (i - 1)]

\* createStrideMask(Builder, Start, Stride, VF):
\* <Start, Start + Stride, ..., Start + Stride * (VF - 1)>.
createStrideMask(Start, Stride, VF) ==
    [i \in 1..VF |-> Start + (i - 1) * Stride]

\* createSequentialMask counting on into the undef elements.
createSequentialMask_noUndefs(Start, NumInts, NumUndefs) ==
    [i \in 1..(NumInts + NumUndefs) |-> Start + (i - 1)]

\* createSequentialMask(Builder, Start, NumInts, NumUndefs):
\* <Start, Start + 1, ..., Start + NumInts - 1, undef, ..., undef>.
createSequentialMask(Start, NumInts, NumUndefs) ==
    [i \in 1..NumInts |-> Start + (i - 1)] \o [i \in 1..NumUndefs |-> Undef]

NoMask ==
    [op |-> "none", VF |-> 0, N |-> 0, Start |-> 0, NumInts |-> 0,
     NumUndefs |-> 0, out |-> << >>]

MaskIdle == lastMask = NoMask

\* The groups a gap mask is built for: slot 0 and any of the other slots.
MaskInit ==
    /\ \E Factor \in MaskFactorInputs :
          \E Slots \in SUBSET (1..(Factor - 1)) :
              Group = GroupOfSlots(Factor, Slots)
    /\ calls = 0
    /\ lastInsert = NoInsert(Group)
    /\ alignsGiven = {Group.Align}
    /\ lastMask = NoMask

CreateBitMaskForGaps ==
    \E VF \in 1..MaxVF :
        lastMask' = [NoMask EXCEPT !.op = "createBitMaskForGaps", !.VF = VF,
                                   !.out = createBitMaskForGaps(VF, Group)]

CreateReplicatedMask ==
    \E ReplicationFactor \in 1..MaxVecs, VF \in 1..MaxVF :
        lastMask' = [NoMask EXCEPT
                        !.op = "createReplicatedMask", !.VF = VF,
                        !.N = ReplicationFactor,
                        !.out = createReplicatedMask(ReplicationFactor, VF)]

CreateInterleaveMask ==
    \E VF \in 1..MaxVF, NumVecs \in 1..MaxVecs :
        lastMask' = [NoMask EXCEPT
                        !.op = "createInterleaveMask", !.VF = VF,
                        !.N = NumVecs,
                        !.out = createInterleaveMask(VF, NumVecs)]

CreateStrideMask ==
    \E Start \in 0..MaxStart, Stride \in 1..MaxVecs, VF \in 1..MaxVF :
        lastMask' = [NoMask EXCEPT
                        !.op = "createStrideMask", !.VF = VF, !.N = Stride,
                        !.Start = Start,
                        !.out = createStrideMask(Start, Stride, VF)]

CreateSequentialMask ==
    \E Start \in 0..MaxStart, NumInts \in 1..MaxInts, NumUndefs \in 0..MaxInts :
        lastMask' = [NoMask EXCEPT
                        !.op = "createSequentialMask", !.Start = Start,
                        !.NumInts = NumInts, !.NumUndefs = NumUndefs,
                        !.out = createSequentialMask(Start, NumInts, NumUndefs)]

---------------------------------------------------------------------------
(* LoopSplit of lib/Transforms/Scalar/LoopOptTutorial.cpp, on a loop whose  *)
(* induction variable is an i32.                                            *)

\* The initial and final values of the induction variable, Loop::getBounds.
IVInputs == (-MaxIV..MaxIV) \cup {INT32_MIN, INT32_MAX}

\* Instruction::UDiv of an i32 by the constant 2: the bit pattern taken as an
\* unsigned number, halved.
UDivBy2(x) ==
    IF x >= 0 THEN x \div 2
    ELSE (((x + INT32_MAX) + 1) \div 2) + ((INT32_MAX \div 2) + 1)

\* LoopSplit::computeSplitPoint: Sub = IVFinalVal - IVInitialVal (no nsw or
\* nuw flag: it wraps), then Sub udiv 2.
computeSplitPoint(IVInitialVal, IVFinalVal) ==
    UDivBy2(WrapSub(IVFinalVal, IVInitialVal))

\* a < b for two i32 values taken as unsigned numbers.
ULess(a, b) == IF (a >= 0) = (b >= 0) THEN a < b ELSE a >= 0

\* The predicates of an ICmpInst.
Predicates ==
    {"eq", "ne", "ugt", "uge", "ult", "ule", "sgt", "sge", "slt", "sle"}

\* The result of an ICmpInst with the predicate pred on the i32 values a, b.
Compare(pred, a, b) ==
    CASE pred = "eq"  -> a = b
      [] pred = "ne"  -> a # b
      [] pred = "ugt" -> ULess(b, a)
      [] pred = "uge" -> ~ULess(a, b)
      [] pred = "ult" -> ULess(a, b)
      [] pred = "ule" -> ~ULess(b, a)
      [] pred = "sgt" -> a > b
      [] pred = "sge" -> a >= b
      [] pred = "slt" -> a < b
      [] pred = "sle" -> a <= b

\* The predicate that holds for (b, a) exactly when pred holds for (a, b),
\* and the predicate that holds exactly when pred does not.
SwappedPredicate(pred) ==
    CASE pred = "eq"  -> "eq"
      [] pred = "ne"  -> "ne"
      [] pred = "ugt" -> "ult"
      [] pred = "uge" -> "ule"
      [] pred = "ult" -> "ugt"
      [] pred = "ule" -> "uge"
      [] pred = "sgt" -> "slt"
      [] pred = "sge" -> "sle"
      [] pred = "slt" -> "sgt"
      [] pred = "sle" -> "sge"
InversePredicate(pred) ==
    CASE pred = "eq"  -> "ne"
      [] pred = "ne"  -> "eq"
      [] pred = "ugt" -> "ule"
      [] pred = "uge" -> "ult"
      [] pred = "ult" -> "uge"
      [] pred = "ule" -> "ugt"
      [] pred = "sgt" -> "sle"
      [] pred = "sge" -> "slt"
      [] pred = "slt" -> "sge"
      [] pred = "sle" -> "sgt"

\* The i32 values x for which Compare(pred, x, c) holds, as a set of
\* intervals <<low, high>> of the signed order.
ValuesBelow(c) == IF c = INT32_MIN THEN {} ELSE {<<INT32_MIN, c - 1>>}
ValuesAbove(c) == IF c = INT32_MAX THEN {} ELSE {<<c + 1, INT32_MAX>>}
IntervalsOf(pred, c) ==
    CASE pred = "eq"  -> {<<c, c>>}
      [] pred = "ne"  -> ValuesBelow(c) \cup ValuesAbove(c)
      [] pred = "slt" -> ValuesBelow(c)
      [] pred = "sle" -> {<<INT32_MIN, c>>}
      [] pred = "sgt" -> ValuesAbove(c)
      [] pred = "sge" -> {<<c, INT32_MAX>>}
      [] pred = "ult" -> IF c >= 0
                         THEN (IF c = 0 THEN {} ELSE {<<0, c - 1>>})
                         ELSE {<<0, INT32_MAX>>} \cup ValuesBelow(c)
      [] pred = "ule" -> IF c >= 0 THEN {<<0, c>>}
                         ELSE {<<0, INT32_MAX>>, <<INT32_MIN, c>>}
      [] pred = "ugt" -> IF c >= 0
                         THEN ValuesAbove(c) \cup {<<INT32_MIN, -1>>}
                         ELSE (IF c = -1 THEN {} ELSE {<<c + 1, -1>>})
      [] pred = "uge" -> IF c >= 0
                         THEN {<<c, INT32_MAX>>, <<INT32_MIN, -1>>}
                         ELSE {<<c, -1>>}

InIntervals(T, x) == \E t \in T : t[1] <= x /\ x <= t[2]

\* An operand of the latch comparison: the phi of the induction variable
\* (its value before the step), the stepped induction variable, a value that
\* does not change in the loop, or another value of the loop (a load).
PhiOperand == [kind |-> "phi", val |-> 0]
StepOperand == [kind |-> "step", val |-> 0]
ValOperand(v) == [kind |-> "val", val |-> v]
OtherOperand == [kind |-> "other", val |-> 0]
IsIV(op) == op.kind = "phi" \/ op.kind = "step"

\* The steps of the induction variables.
Steps == {1, 2, -1}

\* The loops isCandidate accepts, with a latch that branches on an ICmpInst
\* of the induction variable and a value: the initial value and the step of
\* the induction variable, the comparison, and whether the latch leaves the
\* loop when the comparison is true.  StepInstIsBinOp: the value the header
\* phi receives from the latch is the BinaryOperator that steps it.
LoopOf(Initial, Step, pred, op0, op1, ExitOnTrue) ==
    [Initial |-> Initial, Step |-> Step, LatchIsICmp |-> TRUE,
     StepInstIsBinOp |-> TRUE,
     Cmp |-> [pred |-> pred, ops |-> <<op0, op1>>],
     ExitOnTrue |-> ExitOnTrue]

\* The loop L with the stepped value handed to the header phi through an
\* instruction that is not a BinaryOperator (a one-entry phi of the latch
\* block, a bitcast): the loop runs as L does, and isCandidate accepts it.
ThroughCopy(L) == [L EXCEPT !.StepInstIsBinOp = FALSE]
CountedLoop(Initial, Final, Step, pred, IV, BoundOperand, ExitOnTrue) ==
    IF BoundOperand = 1
    THEN LoopOf(Initial, Step, pred, IV, ValOperand(Final), ExitOnTrue)
    ELSE LoopOf(Initial, Step, pred, ValOperand(Final), IV, ExitOnTrue)

\* The loops isCandidate accepts whose latch does not compare the induction
\* variable: it compares another value, or it does not branch on an ICmpInst.
UncountedLoops ==
    {LoopOf(0, 1, "slt", OtherOperand, ValOperand(MaxIV), FALSE),
     [LoopOf(0, 1, "slt", OtherOperand, ValOperand(MaxIV), FALSE)
         EXCEPT !.LatchIsICmp = FALSE]}

\* The loops isCandidate accepts whose latch compares the induction variable
\* with a value computed in the loop: a load, or the induction variable
\* itself (the phi with the stepped value).
InnerBoundLoops ==
    {LoopOf(0, Step, pred, ops[1], ops[2], ExitOnTrue) :
        Step \in Steps, pred \in {"slt", "ne"}, ExitOnTrue \in BOOLEAN,
        ops \in {<<PhiOperand, StepOperand>>, <<StepOperand, PhiOperand>>,
                 <<PhiOperand, OtherOperand>>, <<OtherOperand, PhiOperand>>,
                 <<StepOperand, OtherOperand>>, <<OtherOperand, StepOperand>>}}

\* LoopSplit::getLatchCmpInst: the ICmpInst the latch branches on, if any.
getLatchCmpInst(L) == IF L.LatchIsICmp THEN Some(L.Cmp) ELSE None

\* Loop::getBounds as far as computeSplitPoint reads it: the initial value
\* of the induction variable, and the final value.  The final value is
\* operand 1 of the latch comparison when operand 0 is the phi or the
\* stepped value of the induction variable, else operand 0 when operand 1
\* is; whatever that operand is: a value that does not change in the loop,
\* a load of the loop, or the induction variable again.  There are no bounds
\* when neither operand is the induction variable, nor when the value the
\* header phi receives from the latch is not a BinaryOperator (there is no
\* step instruction).
NoBounds == [has |-> FALSE, Initial |-> 0, Final |-> ValOperand(0)]
getBounds(L) ==
    LET Cmp == getLatchCmpInst(L)
    IN  IF ~Cmp.has \/ ~L.StepInstIsBinOp THEN NoBounds
        ELSE IF IsIV(Cmp.val.ops[1])
        THEN [has |-> TRUE, Initial |-> L.Initial, Final |-> Cmp.val.ops[2]]
        ELSE IF IsIV(Cmp.val.ops[2])
        THEN [has |-> TRUE, Initial |-> L.Initial, Final |-> Cmp.val.ops[1]]
        ELSE NoBounds

\* LatchCmpInst->setOperand(1, Split): operand 1, whatever it is.
setOperand1(cmp, Split) == [cmp EXCEPT !.ops[2] = ValOperand(Split)]

\* The value of an operand in the iteration in which the phi is i.
OperandValue(L, op, i) ==
    IF op.kind = "phi" THEN i
    ELSE IF op.kind = "step" THEN WrapAdd(i, L.Step)
    ELSE op.val

\* The latch of L leaves the loop after the iteration in which the phi is i.
Holds(L, i) ==
    Compare(L.Cmp.pred, OperandValue(L, L.Cmp.ops[1], i),
            OperandValue(L, L.Cmp.ops[2], i)) = L.ExitOnTrue

\* The values of the operand of the latch comparison that is the induction
\* variable with which the latch leaves the loop.
LeavingValues(L) ==
    LET p == IF L.ExitOnTrue THEN L.Cmp.pred ELSE InversePredicate(L.Cmp.pred)
    IN  IF IsIV(L.Cmp.ops[1])
        THEN IntervalsOf(p, L.Cmp.ops[2].val)
        ELSE IntervalsOf(SwappedPredicate(p), L.Cmp.ops[1].val)

\* x is one of from, from + Step, from + 2 * Step, ... in 32-bit arithmetic
\* (a step of 1, 2 or their negatives: the values of one parity or all).
InOrbit(x, from, Step) == Step \in {1, -1} \/ WrapSub(x, from) % 2 = 0

\* The distance from from to x in the direction of the step, as an unsigned
\* number: the number of steps for a step of 1 or -1, twice that number for
\* a step of 2.
DistanceTo(x, from, Step) ==
    IF Step > 0 THEN WrapSub(x, from) ELSE WrapSub(from, x)

\* The first of from, from + Step, from + 2 * Step, ... (in 32-bit
\* arithmetic) that lies in one of the intervals T, if any.  It is from, or
\* the first value of the sequence within one interval.
FirstIn(T, from, Step) ==
    LET Entry(t) == IF Step > 0
                    THEN (IF InOrbit(t[1], from, Step) THEN {t[1]}
                          ELSE IF t[1] < t[2] THEN {t[1] + 1} ELSE {})
                    ELSE (IF InOrbit(t[2], from, Step) THEN {t[2]}
                          ELSE IF t[1] < t[2] THEN {t[2] - 1} ELSE {})
        Cands    == (IF InIntervals(T, from) THEN {from} ELSE {})
                    \cup UNION {Entry(t) : t \in T}
    IN  IF Cands = {} THEN None
        ELSE Some(CHOOSE c \in Cands :
                    \A d \in Cands :
                       ~ULess(DistanceTo(d, from, Step),
                              DistanceTo(c, from, Step)))

\* The run of the loop L: whether it leaves, and the value of the phi in its
\* last iteration.  The latch is tested after the body; the step wraps.
LoopRun(L) ==
    LET op0 == L.Cmp.ops[1]
        op1 == L.Cmp.ops[2]
        IV  == IF IsIV(op0) THEN op0 ELSE op1
        f   == IF IV.kind = "phi"
               THEN FirstIn(LeavingValues(L), L.Initial, L.Step)
               ELSE FirstIn(LeavingValues(L), WrapAdd(L.Initial, L.Step), L.Step)
    IN  IF ~IsIV(op0) /\ ~IsIV(op1)
        THEN [leaves |-> Holds(L, L.Initial), last |-> L.Initial]
        ELSE IF ~f.has THEN [leaves |-> FALSE, last |-> L.Initial]
        ELSE [leaves |-> TRUE,
              last   |-> IF IV.kind = "phi" THEN f.val
                         ELSE WrapSub(f.val, L.Step)]

\* The loop leaves.
Terminates(L) == LoopRun(L).leaves

\* No splitLoop has run yet.
NoLoop == LoopOf(0, 1, "slt", StepOperand, ValOperand(0), FALSE)
NoSplit ==
    [called |-> FALSE, outcome |-> "none", Loop |-> NoLoop,
     Initial |-> 0, Final |-> 0, Split |-> 0,
     Cloned |-> NoLoop, Orig |-> NoLoop]

SplitIdle == lastSplit = NoSplit

\* LoopSplit::splitLoop on a loop isCandidate accepts, once.  When the loop
\* has no bounds (the latch does not compare the induction variable, or the
\* header phi does not receive a BinaryOperator from the latch),
\* computeSplitPoint fails its assertion, and without
\* assertions reads the empty Optional and the program crashes.  When the
\* final value is computed in the loop, computeSplitPoint subtracts it in
\* the preheader, before it is computed: splitLoop returns true and leaves a
\* function in which a definition does not dominate its use, of which no
\* run is defined ("malformed").  Otherwise the clone of the loop runs
\* first, from the initial value, with the split point as operand 1 of its
\* latch comparison; then the original loop, with the split point as the
\* incoming value of its induction variable and its latch comparison as it
\* was.
splitLoop(L) ==
    LET Bounds == getBounds(L)
        Split  == computeSplitPoint(Bounds.Initial, Bounds.Final.val)
    IN  IF ~Bounds.has
        THEN {[NoSplit EXCEPT !.called = TRUE, !.outcome = o, !.Loop = L] :
                 o \in {"assert", "crash"}}
        ELSE IF Bounds.Final.kind # "val"
        THEN {[NoSplit EXCEPT !.called = TRUE, !.outcome = "malformed",
                              !.Loop = L, !.Initial = Bounds.Initial]}
        ELSE {[called  |-> TRUE,
               outcome |-> "returned",
               Loop    |-> L,
               Initial |-> Bounds.Initial,
               Final   |-> Bounds.Final.val,
               Split   |-> Split,
               Cloned  |-> [L EXCEPT !.Cmp = setOperand1(L.Cmp, Split)],
               Orig    |-> [L EXCEPT !.Initial = Split]]}

SplitLoop ==
    /\ ~lastSplit.called
    /\ \/ \E Initial \in IVInputs, Final \in IVInputs, Step \in Steps,
             pred \in Predicates, IV \in {PhiOperand, StepOperand},
             BoundOperand \in {0, 1}, ExitOnTrue \in BOOLEAN,
             Direct \in BOOLEAN :
               LET L == CountedLoop(Initial, Final, Step, pred, IV,
                                    BoundOperand, ExitOnTrue)
               IN  lastSplit' \in splitLoop(IF Direct THEN L
                                            ELSE ThroughCopy(L))
       \/ \E L \in UncountedLoops \cup InnerBoundLoops, Direct \in BOOLEAN :
             lastSplit' \in splitLoop(IF Direct THEN L ELSE ThroughCopy(L))

---------------------------------------------------------------------------
(* Specifications. *)

\* The state of the part a specification does not exercise.
GroupIdle ==
    /\ Group = NewGroupWithLeader(1, 2, 1)
    /\ calls = 0
    /\ lastInsert = NoInsert(Group)
    /\ alignsGiven = {Group.Align}

DepIdle ==
    /\ MayWrite = {}
    /\ StrideOf = [a \in Accesses |-> 1]
    /\ OffsetOf = [a \in Accesses |-> 0]
    /\ LAI = NullLAI
    /\ Dependences = EmptyMap
    /\ collected = FALSE
    /\ lastDep = NoDepOp

RepoIdle == RepoInit

\* One InterleaveGroup, created with a leader, under any sequence of
\* insertMember calls.
Init == GroupInit /\ DepIdle /\ RepoIdle /\ MaskIdle /\ SplitIdle
Next == InsertMember /\ UNCHANGED <<depVars, repoVars, maskVars, splitVars>>
Spec == Init /\ [][Next]_vars

\* One InterleaveGroup created by either constructor, of loads (no instruction
\* writes) or of stores (every instruction writes), under any sequence of
\* insertMember and setInsertPos calls.
AnyGroupInit ==
    /\ \/ GroupInit
       \/ /\ \E Factor \in FactorInputs, Reverse \in BOOLEAN,
                 Align \in AlignInputs :
                 Group = NewGroup(Factor, Reverse, Align)
          /\ calls = 0
          /\ lastInsert = NoInsert(Group)
          /\ alignsGiven = {Group.Align}
    /\ MayWrite \in {{}, Instrs}
    /\ StrideOf = [a \in Accesses |-> 1]
    /\ OffsetOf = [a \in Accesses |-> 0]
    /\ LAI = NullLAI
    /\ Dependences = EmptyMap
    /\ collected = FALSE
    /\ lastDep = NoDepOp
    /\ RepoIdle
    /\ MaskIdle /\ SplitIdle
AnyGroupNext ==
    \/ InsertMember /\ UNCHANGED <<depVars, repoVars, maskVars, splitVars>>
    \/ SetInsertPos /\ UNCHANGED <<depVars, repoVars, maskVars, splitVars>>
AnyGroupSpec == AnyGroupInit /\ [][AnyGroupNext]_vars

\* One InterleaveGroup created by InterleaveGroup(Factor, Reverse, Align)
\* with a factor anywhere in uint32_t, under any sequence of insertMember
\* and setInsertPos calls.
WideGroupInit ==
    /\ \E Factor \in WideFactorInputs, Reverse \in BOOLEAN,
          Align \in AlignInputs :
          Group = NewGroup(Factor, Reverse, Align)
    /\ calls = 0
    /\ lastInsert = NoInsert(Group)
    /\ alignsGiven = {Group.Align}
    /\ DepIdle
    /\ RepoIdle
    /\ MaskIdle /\ SplitIdle
WideGroupNext ==
    \/ InsertMember /\ UNCHANGED <<depVars, repoVars, maskVars, splitVars>>
    \/ SetInsertPos /\ UNCHANGED <<depVars, repoVars, maskVars, splitVars>>
WideGroupSpec == WideGroupInit /\ [][WideGroupNext]_vars

\* The dependence facts and the legality check of one InterleavedAccessInfo.
DepSpecInit == DepInit /\ GroupIdle /\ RepoIdle /\ MaskIdle /\ SplitIdle
DepSpecNext ==
    \/ CollectDependences /\ UNCHANGED <<groupVars, repoVars, maskVars, splitVars>>
    \/ CanReorder /\ UNCHANGED <<groupVars, repoVars, maskVars, splitVars>>
DepSpec == DepSpecInit /\ [][DepSpecNext]_vars

\* The groups of one InterleavedAccessInfo under its group operations, each
\* called where its callers may call it.
RepoSpecInit == RepoInit /\ GroupIdle /\ DepIdle /\ MaskIdle /\ SplitIdle
RepoSpecNext ==
    \/ CreateInterleaveGroup /\ UNCHANGED <<groupVars, depVars, maskVars, splitVars>>
    \/ MergeIntoGroup /\ UNCHANGED <<groupVars, depVars, maskVars, splitVars>>
    \/ ReleaseGroup /\ UNCHANGED <<groupVars, depVars, maskVars, splitVars>>
    \/ Reset /\ UNCHANGED <<groupVars, depVars, maskVars, splitVars>>
RepoSpec == RepoSpecInit /\ [][RepoSpecNext]_vars

\* One InterleavedAccessInfo on one loop under its public operations.
AnalysisSpecInit == LoopInit /\ RepoInit /\ GroupIdle /\ MaskIdle /\ SplitIdle
AnalysisSpecNext ==
    \/ AnalyzeInterleaving /\ UNCHANGED <<groupVars, maskVars, splitVars>>
    \/ InvalidateGroupsRequiringScalarEpilogue /\ UNCHANGED <<groupVars, depVars, maskVars, splitVars>>
    \/ Reset /\ UNCHANGED <<groupVars, depVars, maskVars, splitVars>>
AnalysisSpec == AnalysisSpecInit /\ [][AnalysisSpecNext]_vars

\* The mask builders, each run with any arguments, the gap mask on one group.
MaskSpecInit == MaskInit /\ DepIdle /\ RepoIdle /\ SplitIdle
MaskSpecNext ==
    \/ CreateBitMaskForGaps /\ UNCHANGED <<groupVars, depVars, repoVars, splitVars>>
    \/ CreateReplicatedMask /\ UNCHANGED <<groupVars, depVars, repoVars, splitVars>>
    \/ CreateInterleaveMask /\ UNCHANGED <<groupVars, depVars, repoVars, splitVars>>
    \/ CreateStrideMask /\ UNCHANGED <<groupVars, depVars, repoVars, splitVars>>
    \/ CreateSequentialMask /\ UNCHANGED <<groupVars, depVars, repoVars, splitVars>>
MaskSpec == MaskSpecInit /\ [][MaskSpecNext]_vars

\* LoopSplit::splitLoop on one loop, with any bounds of its induction
\* variable.
SplitSpecInit == SplitIdle /\ GroupIdle /\ DepIdle /\ RepoIdle /\ MaskIdle
SplitSpecNext ==
    SplitLoop /\ UNCHANGED <<groupVars, depVars, repoVars, maskVars>>
SplitSpec == SplitSpecInit /\ [][SplitSpecNext]_vars

---------------------------------------------------------------------------
(* Properties of InterleaveGroup, checked under Spec. *)

\* The integer i, 0 <= i, is below the uint32_t u.
BelowU32(i, u) == u < 0 \/ i < u

\* The key the last insertMember call asked for, when the sum fits.
LastKey == lastInsert.Index + lastInsert.pre.SmallestKey
LastKeyFits == ~AddOverflows(lastInsert.Index, lastInsert.pre.SmallestKey)

\* C1: after every insertMember call on a group created with a leader,
\* accepted or rejected, LargestKey - SmallestKey < Factor (as integers).
C1_SpanBelowFactor ==
    DiffBelowU32(Group.LargestKey, Group.SmallestKey, Group.Factor)

\* C1 witness: an accepted call has left the group spanning exactly Factor
\* slots, with both bounds moved away from the leader's key.
C1_Witness ==
    /\ lastInsert.called /\ lastInsert.ret
    /\ Group.SmallestKey < 0 /\ Group.LargestKey > 0
    /\ Group.LargestKey - Group.SmallestKey = Group.Factor - 1

\* C2: a call of insertMember that returns false leaves the group as it was:
\* member map, SmallestKey, LargestKey, alignment, insert position.
C2_RejectedLeavesGroupUnchanged ==
    (lastInsert.called /\ ~lastInsert.abort /\ ~lastInsert.ret)
        => Group = lastInsert.pre

\* C2 witness: a call rejected by the span test alone (the key fits and is
\* free) that offered a lower alignment than the group's.
C2_Witness ==
    /\ lastInsert.called /\ ~lastInsert.abort /\ ~lastInsert.ret
    /\ LastKeyFits
    /\ LastKey \notin DOMAIN lastInsert.pre.Members
    /\ lastInsert.NewAlign < lastInsert.pre.Align
    /\ Cardinality(DOMAIN Group.Members) >= 2

\* The last insertMember call returned false.
ReturnedFalse == lastInsert.called /\ ~lastInsert.abort /\ ~lastInsert.ret

\* C3 (as claimed): insertMember returns false when Index + SmallestKey does
\* not fit an int32_t, and when the key lies below SmallestKey and
\* LargestKey - Key does not fit; an accepted member is stored under the
\* exact sum, never under a wrapped-around key.
C3_OverflowFailsClosed ==
    lastInsert.called =>
        /\ ~LastKeyFits => ReturnedFalse
        /\ (/\ LastKeyFits
            /\ LastKey < lastInsert.pre.SmallestKey
            /\ SubOverflows(lastInsert.pre.LargestKey, LastKey))
           => ReturnedFalse
        /\ lastInsert.ret =>
              /\ LastKeyFits
              /\ DOMAIN Group.Members =
                    DOMAIN lastInsert.pre.Members \cup {LastKey}
              /\ Group.Members[LastKey] = lastInsert.Instr

\* What holds of C3 in every build: such a call never returns true and
\* stores nothing, and a call whose Index + SmallestKey does not fit, or
\* whose key is no reserved key of the map, does return false.
C3_OverflowNeverAccepted ==
    lastInsert.called =>
        /\ ~LastKeyFits => ReturnedFalse
        /\ (/\ LastKeyFits
            /\ LastKey < lastInsert.pre.SmallestKey
            /\ SubOverflows(lastInsert.pre.LargestKey, LastKey))
           => /\ ~lastInsert.ret /\ Group = lastInsert.pre
              /\ ~ReservedKey(LastKey) => ReturnedFalse
        /\ lastInsert.ret =>
              /\ LastKeyFits
              /\ DOMAIN Group.Members =
                    DOMAIN lastInsert.pre.Members \cup {LastKey}
              /\ Group.Members[LastKey] = lastInsert.Instr

\* C4 (as claimed): for every slot index i in [0, Factor) at which
\* getMember(i) returns a member, getIndex(getMember(i)) is i, whichever
\* entry of the map getIndex meets first.
C4_GetIndexOfGetMember ==
    \A i \in ProbedIndices(Group) :
        \A m \in getMember(Group, i) :
            m \in MembersOf(Group) => getIndex(Group, m) = {IndexIs(i)}

\* C5: every value getIndex can return for a member is the (unwrapped)
\* difference of one of its keys and SmallestKey, and lies in [0, Factor);
\* so does key - SmallestKey for every key of the member map.
C5_IndexInRange ==
    /\ \A k \in DOMAIN Group.Members :
          /\ ~SubOverflows(k, Group.SmallestKey)
          /\ k - Group.SmallestKey >= 0
          /\ BelowU32(k - Group.SmallestKey, Group.Factor)
    /\ \A k \in DOMAIN Group.Members :
          \A o \in getIndex(Group, Group.Members[k]) :
              /\ o.kind = "index"
              /\ o.val >= 0 /\ BelowU32(o.val, Group.Factor)
              /\ \E j \in DOMAIN Group.Members :
                    /\ Group.Members[j] = Group.Members[k]
                    /\ ~SubOverflows(j, Group.SmallestKey)
                    /\ o.val = j - Group.SmallestKey

\* C5 witness: the last call was accepted and lowered SmallestKey under
\* members inserted before it, whose indices it shifted.
C5_Witness ==
    /\ lastInsert.called /\ lastInsert.ret
    /\ Group.SmallestKey < lastInsert.pre.SmallestKey
    /\ Cardinality(DOMAIN lastInsert.pre.Members) >= 2
    /\ \A k \in DOMAIN lastInsert.pre.Members :
          IndexIs(k - Group.SmallestKey) \in getIndex(Group, Group.Members[k])

---------------------------------------------------------------------------
(* Properties of the legality check, checked under DepSpec. *)

\* The last operation was the legality check on a pair whose source may
\* write and of which at least one access is strided.
WritingStridedQuery ==
    /\ lastDep.op = "canReorder"
    /\ lastDep.A \in MayWrite
    /\ isStrided(StrideOf[lastDep.A]) \/ isStrided(StrideOf[lastDep.B])

\* C6: when A precedes B and A does not write to memory, the legality check
\* answers legal, whatever the dependence data: unavailable, empty, or
\* holding a dependence from A to B.
C6_ReadOnlySourceIsLegal ==
    (lastDep.op = "canReorder" /\ lastDep.A \notin MayWrite)
        => lastDep.ret = TRUE

\* C6 witness: the check has answered legal for a strided read-only A and a
\* B that the cached map records as depending on A.
C6_Witness ==
    /\ lastDep.op = "canReorder" /\ lastDep.A \notin MayWrite
    /\ isStrided(StrideOf[lastDep.A])
    /\ lastDep.A \in DOMAIN Dependences
    /\ lastDep.B \in Dependences[lastDep.A]
    /\ lastDep.ret = TRUE

\* C7: when A may write, one of A and B is strided and the dependences are
\* not valid, the legality check answers (it does not fail) and the answer
\* is that A and B cannot be reordered.
C7_InvalidDependencesReject ==
    (WritingStridedQuery /\ ~areDependencesValid(LAI))
        => lastDep.ret = FALSE

\* C7 witness: such a query has been answered, for a LoopAccessInfo that is
\* present but has no recorded dependences, after collectDependences ran.
C7_Witness ==
    /\ WritingStridedQuery
    /\ LAI.present /\ ~LAI.recorded
    /\ collected
    /\ lastDep.ret = FALSE

\* C8 (as claimed): when the cached map has no entry for the writing source
\* A of a strided pair, the legality check rejects the reordering.
C8_AbsentEntryRejects ==
    (WritingStridedQuery /\ lastDep.A \notin DOMAIN Dependences)
        => lastDep.ret = FALSE

\* C8 (amended): when the cached map has no entry for the writing source A
\* of a strided pair, the legality check rejects the reordering exactly when
\* the dependences are not valid; with valid dependences the missing entry
\* means no dependence from A, and the reordering is legal.
C8_AbsentEntryLegalWhenValid ==
    (WritingStridedQuery /\ lastDep.A \notin DOMAIN Dependences)
        => (lastDep.ret = FALSE <=> ~areDependencesValid(LAI))

\* C8 witness: valid dependences have been collected, some source has an
\* entry, the writing source A of the query has none, and the answer is
\* legal.
C8_Witness ==
    /\ WritingStridedQuery
    /\ areDependencesValid(LAI) /\ collected
    /\ DOMAIN Dependences # {}
    /\ lastDep.A \notin DOMAIN Dependences
    /\ lastDep.ret = TRUE

\* C9: after collectDependences has collected valid dependences, for a
\* writing source A and a strided pair, the legality check rejects exactly
\* when LoopAccessInfo reported a dependence with source A and destination
\* B.
C9_RejectsIffDependenceReported ==
    (WritingStridedQuery /\ collected /\ areDependencesValid(LAI))
        => (lastDep.ret = FALSE <=> <<lastDep.A, lastDep.B>> \in LAI.deps)

\* C9 witness: such a query has been rejected for a reported dependence from
\* A to B, while another dependence with source A was reported too.
C9_Witness ==
    /\ WritingStridedQuery /\ collected /\ areDependencesValid(LAI)
    /\ <<lastDep.A, lastDep.B>> \in LAI.deps
    /\ \E p \in LAI.deps : p[1] = lastDep.A /\ p[2] # lastDep.B
    /\ lastDep.ret = FALSE

\* C10: an operation reads the dependences of LoopAccessInfo
\* (collectDependences) or consults the cached map (the legality check) only
\* after areDependencesValid() has returned true in that same operation, and
\* the dependences are then valid.
C10_ReadOnlyAfterValidCheck ==
    (lastDep.readOracle \/ lastDep.consultedCache)
        => /\ lastDep.checkedValid
           /\ lastDep.validWas
           /\ areDependencesValid(LAI)

\* C10 witness: after collectDependences has read valid dependences into
\* the cached map, the legality check has made the validity test and then
\* consulted the map.
C10_Witness ==
    /\ lastDep.op = "canReorder"
    /\ lastDep.checkedValid /\ lastDep.validWas
    /\ lastDep.consultedCache
    /\ collected /\ Dependences # EmptyMap

---------------------------------------------------------------------------
(* Further properties of InterleaveGroup, checked under Spec. *)

\* C13: the alignment of the group is the minimum of the alignment given to
\* the constructor and of the alignments given to the accepted insertMember
\* calls; the alignment of a rejected call is not among them.
C13_AlignIsMinimum == Group.Align = MinOf(alignsGiven)

\* C13 witness: the last call, accepted, gave a larger alignment than the
\* one the group had reached, on a group of three members or more.
C13_Witness ==
    /\ lastInsert.called /\ lastInsert.ret
    /\ lastInsert.NewAlign > lastInsert.pre.Align
    /\ Cardinality(alignsGiven) >= 2
    /\ Cardinality(DOMAIN Group.Members) >= 3

\* Slot i of the group holds a member: some key at or above SmallestKey is
\* i above it.
SlotFilled(g, i) ==
    \E k \in DOMAIN g.Members : k >= g.SmallestKey /\ WrapSub(k, g.SmallestKey) = i

\* C11: in every reachable state of every group, the group without member
\* included, requiresScalarEpilogue() returns false when slot Factor - 1 is
\* filled and true when it is not, whatever the build.
C11_EpilogueIffLastSlotUnfilled ==
    requiresScalarEpilogue(Group, MayWrite) =
        IF SlotFilled(Group, Group.Factor - 1) THEN {"false"} ELSE {"true"}

---------------------------------------------------------------------------
(* Properties of the groups of InterleavedAccessInfo. *)

\* The live groups that hold the access a.
Holders(a) == {G \in DOMAIN Heap : a \in MembersOf(Heap[G])}

\* C14: after reset() every group the repository owned is released, no
\* access maps to a group, getInterleaveGroups() enumerates no group and
\* requiresScalarEpilogue() is false.
C14_ResetClearsAll ==
    lastRepo.op = "reset" =>
        /\ DOMAIN Heap = {}
        /\ DOMAIN InterleaveGroupMap = {}
        /\ InterleaveGroups = {}
        /\ ~RequiresScalarEpilogue

\* C16: an access is a member of at most one live group; it has an entry in
\* the map exactly when it is a member of a group, and the entry is that
\* group; createInterleaveGroup is never run for an access that had an entry.
C16_OneGroupPerAccess ==
    /\ \A a \in Accesses :
          /\ Cardinality(Holders(a)) <= 1
          /\ (a \in DOMAIN InterleaveGroupMap) = (Holders(a) # {})
          /\ a \in DOMAIN InterleaveGroupMap
                => Holders(a) = {InterleaveGroupMap[a]}
    /\ lastRepo.op = "createInterleaveGroup"
          => lastRepo.Instr \notin DOMAIN lastRepo.pre.InterleaveGroupMap

\* C16 witness: a group was created for an access in no group, beside a live
\* group of two members.
C16_Witness ==
    /\ lastRepo.op = "createInterleaveGroup"
    /\ \E G \in DOMAIN Heap : Cardinality(MembersOf(Heap[G])) >= 2
    /\ Cardinality(DOMAIN Heap) >= 2

\* C17: releaseGroup(G) takes G out of the enumerated groups and leaves no
\* member of G with an entry in the map; the other groups, their place in
\* the enumeration and the entries of their members are as before.
C17_ReleaseRemovesOnlyGroup ==
    lastRepo.op = "releaseGroup" =>
        LET G   == lastRepo.G
            pre == lastRepo.pre
        IN  /\ G \notin InterleaveGroups
            /\ G \notin DOMAIN Heap
            /\ \A m \in MembersOf(pre.Heap[G]) :
                  m \notin DOMAIN InterleaveGroupMap
            /\ InterleaveGroups \ {G} = pre.InterleaveGroups \ {G}
            /\ \A H \in DOMAIN pre.Heap \ {G} :
                  H \in DOMAIN Heap /\ Heap[H] = pre.Heap[H]
            /\ \A a \in DOMAIN pre.InterleaveGroupMap :
                  pre.InterleaveGroupMap[a] # G
                     => /\ a \in DOMAIN InterleaveGroupMap
                        /\ InterleaveGroupMap[a] = pre.InterleaveGroupMap[a]

\* C17 witness: a group of two members was released while another group
\* was live and enumerated.
C17_Witness ==
    /\ lastRepo.op = "releaseGroup"
    /\ Cardinality(MembersOf(lastRepo.pre.Heap[lastRepo.G])) >= 2
    /\ \E H \in DOMAIN Heap : H \in InterleaveGroups

---------------------------------------------------------------------------
(* Properties of analyzeInterleaving and of the invalidation. *)

\* The last slot of the group is empty.
LastSlotEmpty(g) == ~SlotFilled(g, g.Factor - 1)

\* The group holds a store.
IsStoreGroup(g) == MembersOf(g) \cap MayWrite # {}

\* C12: a retained group whose slot Factor - 1 is empty holds only reads and
\* is not reverse; the assertions of requiresScalarEpilogue() fail on no
\* retained group; a retained store group has no gap.  Steps 1 to 6 of the
\* analysis as they are stated do not discard a store group with a gap nor
\* a reverse group whose last slot is empty, so they do not establish this;
\* the discards that would are those of VectorUtils.cpp.
C12_RetainedGapGroupsAreForwardLoads ==
    \A G \in DOMAIN Heap :
        /\ LastSlotEmpty(Heap[G]) => ~IsStoreGroup(Heap[G]) /\ ~Heap[G].Reverse
        /\ requiresScalarEpilogue(Heap[G], MayWrite) \subseteq {"true", "false"}
        /\ IsStoreGroup(Heap[G])
              => \A i \in 0..(Heap[G].Factor - 1) : SlotFilled(Heap[G], i)

\* The repository as it was before the last operation.
Pre == lastRepo.pre

\* C18: after invalidateGroupsRequiringScalarEpilogue() no retained group
\* requires a scalar epilogue; the groups that required one are gone, from
\* the enumeration too, and their members are in no group; the other groups
\* and the entries of their members are as before; the flag is false.
C18_InvalidationRemovesEpilogueGroups ==
    (lastRepo.op = "invalidateGroupsRequiringScalarEpilogue" /\ Running) =>
        /\ \A G \in DOMAIN Heap : ~LastSlotEmpty(Heap[G])
        /\ \A G \in DOMAIN Pre.Heap :
              IF LastSlotEmpty(Pre.Heap[G])
              THEN /\ G \notin DOMAIN Heap
                   /\ G \notin InterleaveGroups
                   /\ MembersOf(Pre.Heap[G]) \cap DOMAIN InterleaveGroupMap = {}
              ELSE /\ G \in DOMAIN Heap /\ Heap[G] = Pre.Heap[G]
                   /\ (G \in InterleaveGroups) = (G \in Pre.InterleaveGroups)
                   /\ \A m \in MembersOf(Pre.Heap[G]) :
                         /\ m \in DOMAIN InterleaveGroupMap
                         /\ InterleaveGroupMap[m] = Pre.InterleaveGroupMap[m]
        /\ ~RequiresScalarEpilogue

\* C18 witness: the invalidation ran with the flag raised, removed a group
\* of loads whose last slot was empty and retained another group beside it.
C18_Witness ==
    /\ lastRepo.op = "invalidateGroupsRequiringScalarEpilogue" /\ Running
    /\ Pre.RequiresScalarEpilogue
    /\ \E G \in DOMAIN Pre.Heap :
          /\ G \notin DOMAIN Heap
          /\ MembersOf(Pre.Heap[G]) \cap MayWrite = {}
          /\ ~Pre.Heap[G].Reverse
    /\ \E H \in DOMAIN Pre.Heap : H \in DOMAIN Heap

\* C19: when analyzeInterleaving or the invalidation has completed, the flag
\* of the repository is the OR of requiresScalarEpilogue() over the groups
\* retained: it is true exactly when a retained group has its last slot
\* empty.
C19_FlagIsOrOverRetained ==
    (lastRepo.op \in {"analyzeInterleaving",
                      "invalidateGroupsRequiringScalarEpilogue"} /\ Running) =>
        RequiresScalarEpilogue = (\E G \in DOMAIN Heap : LastSlotEmpty(Heap[G]))

\* C19 witness: the analysis completed with the flag raised, having retained
\* a forward group of loads whose last slot is empty and a group whose last
\* slot is filled, and no group that fails an assertion.
C19_Witness ==
    /\ lastRepo.op = "analyzeInterleaving" /\ Running
    /\ RequiresScalarEpilogue
    /\ ~epilogueStops(Repo, MayWrite)
    /\ \E G \in DOMAIN Heap, H \in DOMAIN Heap :
          /\ LastSlotEmpty(Heap[G]) /\ ~LastSlotEmpty(Heap[H])
          /\ MembersOf(Heap[G]) \cap MayWrite = {} /\ ~Heap[G].Reverse

\* C20: an access in a group has a constant stride of magnitude above 1, the
\* factor of its group is that magnitude and the group is reverse exactly
\* when the stride is negative; an access of stride magnitude 1 or without
\* constant stride is in no group.
C20_GroupedAccessesAreStrided ==
    /\ \A a \in DOMAIN InterleaveGroupMap :
          LET g == Heap[InterleaveGroupMap[a]]
          IN  /\ Abs(StrideOf[a]) > 1
              /\ g.Factor = Abs(StrideOf[a])
              /\ g.Reverse = (StrideOf[a] < 0)
    /\ \A a \in LoopAccesses :
          Abs(StrideOf[a]) <= 1 => a \notin DOMAIN InterleaveGroupMap

\* C20 witness: the analysis retained a reverse group on a loop that also has
\* an access that is not strided.
C20_Witness ==
    /\ lastRepo.op = "analyzeInterleaving" /\ Running
    /\ \E G \in DOMAIN Heap : Heap[G].Reverse
    /\ \E a \in LoopAccesses : Abs(StrideOf[a]) <= 1

\* C15: analyzeInterleaving, reset() and analyzeInterleaving again on the
\* same accesses and dependence facts gives what the first run gave: the
\* same groups enumerated, the same group for every access, the same flag.
C15_RerunGivesSameResult ==
    (lastRepo.op = "analyzeInterleaving" /\ Running) => View(Repo) = firstRun

---------------------------------------------------------------------------
(* More properties of the groups and of the repository. *)

\* The greatest element of a non-empty set of integers.
MaxOf(S) == CHOOSE a \in S : \A b \in S : b <= a

\* C21: the insert position of a retained group is a member of the group:
\* the first member in program order for a group of loads, the last member
\* in program order for a group of stores.  The constructor sets the insert
\* position to the leader; steps 1 to 6 of the analysis as they are stated
\* never call setInsertPos, so they do not establish the half about stores;
\* the calls that would are those of VectorUtils.cpp.
C21_InsertPosFirstLoadLastStore ==
    \A G \in DOMAIN Heap :
        LET g == Heap[G]
        IN  /\ g.InsertPos \in MembersOf(g)
            /\ MembersOf(g) \cap MayWrite = {}
                  => g.InsertPos = MinOf(MembersOf(g))
            /\ MembersOf(g) \subseteq MayWrite
                  => g.InsertPos = MaxOf(MembersOf(g))

\* C22 (as claimed): getIndex of an access that is not a member of the
\* group never returns: every outcome of the call is the fatal stop; and
\* getIndex of a member returns an index.
C22_GetIndexStopsOnNonMember ==
    \A Instr \in Instrs :
        \A o \in getIndex(Group, Instr) :
            IF Instr \in MembersOf(Group) THEN o.kind = "index"
            ELSE o.kind = "stop"


\* C23: the gap mask of a group of factor F for W lanes has F * W elements,
\* and its element s + F * l, for a slot s < F and a lane l < W, is 1 when
\* the group has a member at slot s and 0 when it has none.
C23_GapMaskMarksMembers ==
    lastMask.op = "createBitMaskForGaps" =>
        /\ Len(lastMask.out) = Group.Factor * lastMask.VF
        /\ \A s \in 0..(Group.Factor - 1), l \in 0..(lastMask.VF - 1) :
              lastMask.out[s + Group.Factor * l + 1] =
                  IF getMember(Group, s) # {Null} THEN 1 ELSE 0

\* Members at slots 0 and 3 of a group of factor 4, two lanes.
C23_Witness ==
    /\ lastMask.op = "createBitMaskForGaps"
    /\ Group.Factor = 4 /\ lastMask.VF = 2
    /\ {s \in 0..3 : getMember(Group, s) # {Null}} = {0, 3}
    /\ lastMask.out = <<1, 0, 0, 1, 1, 0, 0, 1>>

\* C24: the replicated mask for W lanes and replication factor R has W * R
\* elements, and its element i is i div R.
C24_ReplicatedMaskIsQuotient ==
    lastMask.op = "createReplicatedMask" =>
        /\ Len(lastMask.out) = lastMask.VF * lastMask.N
        /\ \A i \in 0..(lastMask.VF * lastMask.N - 1) :
              lastMask.out[i + 1] = i \div lastMask.N

\* Four lanes, replication factor 3.
C24_Witness ==
    /\ lastMask.op = "createReplicatedMask"
    /\ lastMask.VF = 4 /\ lastMask.N = 3
    /\ lastMask.out = <<0, 0, 0, 1, 1, 1, 2, 2, 2, 3, 3, 3>>

\* C25: the interleave mask of N vectors of W lanes has N * W elements, its
\* element i is (i mod N) * W + (i div N), and its elements are each of
\* 0 .. N * W - 1 once.
C25_InterleaveMaskIsPermutation ==
    lastMask.op = "createInterleaveMask" =>
        LET W == lastMask.VF
            N == lastMask.N
        IN  /\ Len(lastMask.out) = N * W
            /\ \A i \in 0..(N * W - 1) :
                  lastMask.out[i + 1] = (i % N) * W + (i \div N)
            /\ \A v \in 0..(N * W - 1) :
                  Cardinality({k \in 1..Len(lastMask.out) :
                                   lastMask.out[k] = v}) = 1

\* Two vectors of four lanes.
C25_Witness ==
    /\ lastMask.op = "createInterleaveMask"
    /\ lastMask.VF = 4 /\ lastMask.N = 2
    /\ lastMask.out = <<0, 4, 1, 5, 2, 6, 3, 7>>

\* C26: the stride mask for W lanes has W elements and its element i is
\* start + i * stride; the stride mask of start n < N and stride N takes,
\* from the interleave mask of N vectors of W lanes, the indices
\* n * W, ..., n * W + W - 1 of vector n in their order.
C26_StrideMaskUndoesInterleave ==
    lastMask.op = "createStrideMask" =>
        LET W == lastMask.VF
            N == lastMask.N
            n == lastMask.Start
        IN  /\ Len(lastMask.out) = W
            /\ \A i \in 0..(W - 1) : lastMask.out[i + 1] = n + i * N
            /\ n < N =>
                  [i \in 1..W |->
                      createInterleaveMask(W, N)[lastMask.out[i] + 1]]
                  = [i \in 1..W |-> n * W + (i - 1)]

\* Start 0, stride 2, four lanes, and a de-interleaving of the second of
\* two vectors.
C26_Witness ==
    /\ lastMask.op = "createStrideMask"
    /\ \/ /\ lastMask.Start = 0 /\ lastMask.N = 2 /\ lastMask.VF = 4
          /\ lastMask.out = <<0, 2, 4, 6>>
       \/ /\ lastMask.Start = 1 /\ lastMask.N = 2 /\ lastMask.VF = 4
          /\ lastMask.out = <<1, 3, 5, 7>>

\* C27: the sequential mask has numInts + numUndefs elements; the first
\* numInts are start, start + 1, ..., the others are undef, and undef is
\* none of the indices.
C27_SequentialMaskPadsWithUndef ==
    lastMask.op = "createSequentialMask" =>
        /\ Len(lastMask.out) = lastMask.NumInts + lastMask.NumUndefs
        /\ \A i \in 0..(lastMask.NumInts - 1) :
              /\ lastMask.out[i + 1] = lastMask.Start + i
              /\ lastMask.out[i + 1] # Undef
        /\ \A i \in lastMask.NumInts..(Len(lastMask.out) - 1) :
              lastMask.out[i + 1] = Undef
        /\ Undef < 0

\* Start 0, four integers, four undefs.
C27_Witness ==
    /\ lastMask.op = "createSequentialMask"
    /\ lastMask.Start = 0 /\ lastMask.NumInts = 4 /\ lastMask.NumUndefs = 4
    /\ lastMask.out = <<0, 1, 2, 3, Undef, Undef, Undef, Undef>>

---------------------------------------------------------------------------
(* Properties of insertMember for every factor, checked under Spec and      *)
(* WideGroupSpec.                                                           *)

MaxOf2(a, b) == IF a >= b THEN a ELSE b
MinOf2(a, b) == IF a <= b THEN a ELSE b

\* The three conditions on the last insertMember call: the key fits an
\* int32_t, no member has the key, and the span of the keys with the new
\* one, as an integer, is below the factor.
LastInsertAllowed ==
    /\ LastKeyFits
    /\ LastKey \notin DOMAIN lastInsert.pre.Members
    /\ DiffBelowU32(MaxOf2(lastInsert.pre.LargestKey, LastKey),
                    MinOf2(lastInsert.pre.SmallestKey, LastKey),
                    lastInsert.pre.Factor)

\* C28 (as claimed): for every uint32_t factor above 1 and every state of
\* the group, insertMember returns true exactly when the key
\* Index + SmallestKey fits an int32_t, no member has that key, and
\* max(LargestKey, key) - min(SmallestKey, key) is below the factor.
C28_AcceptsIffAllowed ==
    lastInsert.called => (lastInsert.ret = LastInsertAllowed)

\* C28 restricted to the factors below 2^31, where it holds.
C28_AcceptsIffAllowedSmallFactor ==
    (lastInsert.called /\ lastInsert.pre.Factor >= 0) =>
        (lastInsert.ret = LastInsertAllowed)

\* C29: an accepted insertMember call adds exactly one entry, key -> member,
\* to the map; every earlier entry keeps its key and its member; the factor,
\* the direction and the insert position stay; and the slot index of every
\* earlier member grows by the one amount old SmallestKey - new SmallestKey.
C29_AcceptedInsertOnlyAdds ==
    (lastInsert.called /\ lastInsert.ret) =>
        LET pre   == lastInsert.pre
            shift == pre.SmallestKey - Group.SmallestKey
        IN  /\ LastKey \notin DOMAIN pre.Members
            /\ DOMAIN Group.Members = DOMAIN pre.Members \cup {LastKey}
            /\ Group.Members[LastKey] = lastInsert.Instr
            /\ \A k \in DOMAIN pre.Members : Group.Members[k] = pre.Members[k]
            /\ Group.Factor = pre.Factor
            /\ Group.Reverse = pre.Reverse
            /\ Group.InsertPos = pre.InsertPos
            /\ shift >= 0
            /\ \A k \in DOMAIN pre.Members :
                  LET i == k - pre.SmallestKey
                  IN  /\ getMember(pre, i) = {pre.Members[k]}
                      /\ getMember(Group, i + shift) = {pre.Members[k]}
                      /\ i + shift = k - Group.SmallestKey

\* C29 witness: an accepted call put an instruction other than the insert
\* position below the lowest of several members, shifting their indices.
C29_Witness ==
    /\ lastInsert.called /\ lastInsert.ret
    /\ Cardinality(DOMAIN lastInsert.pre.Members) >= 2
    /\ lastInsert.pre.SmallestKey - Group.SmallestKey > 0
    /\ lastInsert.Instr # Group.InsertPos
    /\ getMember(Group, 0) = {lastInsert.Instr}

\* C30 (as claimed): in every state of the repository, whatever
\* createInterleaveGroup, member insertions, releaseGroup, invalidation and
\* reset() have run, getInterleaveGroups() enumerates exactly the groups some
\* access maps to, and every enumerated group is live.
C30_EnumeratedEqualsMapped ==
    /\ InterleaveGroups = Range(InterleaveGroupMap)
    /\ InterleaveGroups \subseteq DOMAIN Heap

\* The half of C30 that reset() leaves standing: the groups some access maps
\* to are exactly the live ones, and each of them is enumerated.
C30_MappedAreLiveAndEnumerated ==
    /\ Range(InterleaveGroupMap) = DOMAIN Heap
    /\ Range(InterleaveGroupMap) \subseteq InterleaveGroups

---------------------------------------------------------------------------
(* Properties of the bounds and of the slots of a group, checked under Spec. *)

\* C31: for a group created with a leader, after any insertMember calls,
\* SmallestKey <= 0 <= LargestKey, a member is present at SmallestKey and at
\* LargestKey; so slot 0 is filled and requiresScalarEpilogue never
\* dereferences a null getMember(0).
C31_BoundsHoldMembers ==
    /\ Group.SmallestKey <= 0 /\ 0 <= Group.LargestKey
    /\ Group.SmallestKey \in DOMAIN Group.Members
    /\ Group.LargestKey \in DOMAIN Group.Members
    /\ Null \notin getMember(Group, 0)
    /\ getMember(Group, 0) = {Group.Members[Group.SmallestKey]}
    /\ \A writes \in SUBSET Instrs :
          "crash" \notin requiresScalarEpilogue(Group, writes)

\* C31 witness: accepted calls have moved both bounds away from the leader's
\* key and the last slot is empty, so requiresScalarEpilogue reads slot 0.
C31_Witness ==
    /\ lastInsert.called
    /\ Group.SmallestKey < 0 /\ Group.LargestKey > 0
    /\ getMember(Group, WrapSub(Group.Factor, 1)) = {Null}
    /\ getMember(Group, 0) # {Group.Members[0]}

\* C32 (as claimed): after any insertMember calls on one group each access
\* has at most one key of the group, and insertMember never accepts an access
\* that is already a member.
C32_OneSlotPerAccess ==
    /\ \A Instr \in Instrs :
          Cardinality({k \in DOMAIN Group.Members :
                          Group.Members[k] = Instr}) <= 1
    /\ (lastInsert.called /\ lastInsert.ret)
          => lastInsert.Instr \notin MembersOf(lastInsert.pre)

---------------------------------------------------------------------------
(* Properties of LoopSplit, checked under SplitSpec. *)

\* v is the value of the phi of the induction variable in an iteration of
\* the loop L: one of the values from the initial one to the last one, and
\* every value of the sequence when the loop does not leave.
Visits(L, v) ==
    /\ InOrbit(v, L.Initial, L.Step)
    /\ LET run == LoopRun(L)
       IN  run.leaves =>
              ~ULess(DistanceTo(run.last, L.Initial, L.Step),
                     DistanceTo(v, L.Initial, L.Step))

\* The values whose visits are compared.
WatchedValues == IVInputs \cup {lastSplit.Split}

\* The split point of the last splitLoop lies within the bounds, and every
\* value is visited by the cloned loop and then the original loop as often
\* as by the loop before the split.
SplitKeepsRange ==
    /\ lastSplit.outcome = "returned"
    /\ lastSplit.Initial <= lastSplit.Split
    /\ lastSplit.Split <= lastSplit.Final
    /\ Terminates(lastSplit.Cloned)
    /\ \A v \in WatchedValues :
          LET inCloned == Visits(lastSplit.Cloned, v)
              inOrig   == Visits(lastSplit.Orig, v)
          IN  /\ ~(inCloned /\ inOrig)
              /\ (inCloned \/ inOrig) = Visits(lastSplit.Loop, v)

\* The loops `for (i = 0; i < Final; ++i)` with Final >= 2 after rotation:
\* the latch leaves when `icmp slt %inc, Final` is false.
LastSplitFromZero ==
    /\ lastSplit.outcome = "returned"
    /\ lastSplit.Initial = 0 /\ 2 <= lastSplit.Final
    /\ lastSplit.Loop = LoopOf(0, 1, "slt", StepOperand,
                               ValOperand(lastSplit.Final), FALSE)

\* C33 (as claimed): for every loop with bounds initial <= final the split
\* point of computeSplitPoint satisfies initial <= split <= final, so the
\* cloned loop (up to split) and the original loop (from split) together
\* visit each value of the range exactly once.
C33_SplitPointWithinBounds ==
    (lastSplit.outcome = "returned" /\ lastSplit.Initial <= lastSplit.Final)
        => SplitKeepsRange

\* C33 for the loops that start at 0, run at least twice, step by 1 and
\* leave when the stepped induction variable is not below the final value,
\* operand 1 of the latch comparison, where it holds.
C33_SplitPointWithinBoundsFromZero ==
    LastSplitFromZero => SplitKeepsRange
===========================================================================
